---- MODULE Spec2Model ----
(***************************************************************************)
(* Model of SonioxSTTService (processors/soniox_stt.py): the frame         *)
(* handlers of process_frame, the background receive loop, the reconnect   *)
(* and shutdown paths, and the pure text functions _render_tokens and      *)
(* _clean_transcription.                                                   *)
(*                                                                         *)
(* Strings are sequences of one-character strings.  Python's None is the   *)
(* value None below, which is not a character sequence.                    *)
(*                                                                         *)
(* Scheduling: process_frame handles one frame at a time; the receive      *)
(* loop is a second asyncio task that runs whenever a handler or the loop  *)
(* itself is suspended in an await.  A handler is split into several       *)
(* actions only at the awaits across which the receive loop can change     *)
(* what the handler does next (the grace sleep and the pushes of the stop  *)
(* handler); the other awaits commute with the receive loop and are taken  *)
(* in one step.                                                            *)
(***************************************************************************)
EXTENDS Integers, Sequences, FiniteSets, TLC

\* ------------------------------------------------------------------ bounds
MaxFrames == 3
MaxConns == 2
MaxFinal == 2
\* frames taken in the runs that check the stop handler's progress
MaxDrainFrames == 2
\* tokens in one call of _render_tokens, and calls on the same tokens
MaxRenderLen == 3
MaxCalls == 2
\* frames handled by the GroqLLMService
MaxLLMFrames == 4
\* frames handled by the CartesiaTTSService, and audio chunks of a request
MaxTTSFrames == 4
MaxChunks == 2

\* ----------------------------------------------------------------- strings
None == <<"<None>">>

Space == {" ", "\n", "\t"}
Digit == {"0", "1", "2", "3", "4", "5", "6", "7", "8", "9"}
Lower == {"a", "b", "c", "d", "e", "f", "g", "h", "i", "j", "k", "l", "m",
          "n", "o", "p", "q", "r", "s", "t", "u", "v", "w", "x", "y", "z"}

SpeakerLit == <<"S", "p", "e", "a", "k", "e", "r">>
TranslationLit == <<"[", "T", "r", "a", "n", "s", "l", "a", "t", "i", "o", "n", "]">>
EndLit == <<"<", "e", "n", "d", ">">>

\* number of consecutive characters of s, from position i on, that are in cls
RECURSIVE SpanLen(_, _, _)
SpanLen(s, i, cls) ==
    IF i <= Len(s) /\ s[i] \in cls THEN 1 + SpanLen(s, i + 1, cls) ELSE 0

HasLit(s, i, lit) ==
    /\ i + Len(lit) - 1 <= Len(s)
    /\ SubSeq(s, i, i + Len(lit) - 1) = lit

\* str.lstrip()
lstrip(s) == SubSeq(s, 1 + SpanLen(s, 1, Space), Len(s))

\* length of the match of  Speaker\s+\d+:\s*  at position i, 0 when none
MatchSpeaker(s, i) ==
    IF ~HasLit(s, i, SpeakerLit) THEN 0
    ELSE LET j == i + Len(SpeakerLit)
             ws == SpanLen(s, j, Space)
             k == j + ws
             ds == SpanLen(s, k, Digit)
             c == k + ds
         IN  IF ws = 0 \/ ds = 0 \/ ~HasLit(s, c, <<":">>) THEN 0
             ELSE (c + 1 + SpanLen(s, c + 1, Space)) - i

\* length of the match of  \[Translation\]\s*  at position i, 0 when none
MatchTranslation(s, i) ==
    IF ~HasLit(s, i, TranslationLit) THEN 0
    ELSE Len(TranslationLit) + SpanLen(s, i + Len(TranslationLit), Space)

\* length of the match of  \[[a-z]{2}\]\s*  at position i, 0 when none
MatchLanguage(s, i) ==
    IF /\ i + 3 <= Len(s)
       /\ s[i] = "["
       /\ s[i + 1] \in Lower
       /\ s[i + 2] \in Lower
       /\ s[i + 3] = "]"
    THEN 4 + SpanLen(s, i + 4, Space)
    ELSE 0

\* length of the match of  <end>  at position i, 0 when none
MatchEnd(s, i) == IF HasLit(s, i, EndLit) THEN Len(EndLit) ELSE 0

MatchLen(pat, s, i) ==
    CASE pat = "speaker" -> MatchSpeaker(s, i)
      [] pat = "translation" -> MatchTranslation(s, i)
      [] pat = "language" -> MatchLanguage(s, i)
      [] pat = "end" -> MatchEnd(s, i)

\* re.sub(pat, '', s): leftmost non-overlapping matches removed
RECURSIVE SubFrom(_, _, _)
SubFrom(pat, s, i) ==
    IF i > Len(s) THEN <<>>
    ELSE LET m == MatchLen(pat, s, i)
         IN  IF m > 0 THEN SubFrom(pat, s, i + m)
             ELSE <<s[i]>> \o SubFrom(pat, s, i + 1)

re_sub(pat, s) == SubFrom(pat, s, 1)

\* " ".join(s.split()): words separated by single spaces
RECURSIVE JoinSplitFrom(_, _, _)
JoinSplitFrom(s, i, started) ==
    IF i > Len(s) THEN <<>>
    ELSE IF s[i] \in Space THEN JoinSplitFrom(s, i + SpanLen(s, i, Space), started)
    ELSE LET n == SpanLen(s, i, {s[k] : k \in 1..Len(s)} \ Space)
         IN  (IF started THEN <<" ">> ELSE <<>>)
               \o SubSeq(s, i, i + n - 1)
               \o JoinSplitFrom(s, i + n, TRUE)

join_split(s) == JoinSplitFrom(s, 1, FALSE)

\* str.strip()
RECURSIVE rstrip(_)
rstrip(s) ==
    IF s # <<>> /\ s[Len(s)] \in Space THEN rstrip(SubSeq(s, 1, Len(s) - 1)) ELSE s

strip(s) == rstrip(lstrip(s))

\* _clean_transcription
clean_transcriptionKeepsLanguage(text) ==
    LET t1 == re_sub("speaker", text)
        t2 == re_sub("translation", t1)
        t4 == re_sub("end", t2)
        t5 == join_split(t4)
    IN  strip(t5)

clean_transcription(text) ==
    LET t1 == re_sub("speaker", text)
        t2 == re_sub("translation", t1)
        t3 == re_sub("language", t2)
        t4 == re_sub("end", t3)
        t5 == join_split(t4)
    IN  strip(t5)

\* _render_tokens: "speaker is not None and speaker != current_speaker"
SpeakerChanged(token, spk) == token.speaker # None /\ token.speaker # spk

\* the speaker tag, after a paragraph break unless it is the first one
SpeakerTagAlwaysBreak(token, spk) ==
    <<"\n", "\n">> \o SpeakerLit \o <<" ">> \o token.speaker \o <<":">>

SpeakerTag(token, spk) ==
    (IF spk # None THEN <<"\n", "\n">> ELSE <<>>)
        \o SpeakerLit \o <<" ">> \o token.speaker \o <<":">>

\* _render_tokens: "language is not None and language != current_language"
LanguageChangedOrUnset(token, lang) == token.language # lang

LanguageChanged(token, lang) == token.language # None /\ token.language # lang

\* the language tag on a line of its own, with the translation prefix
LanguageTag(token) ==
    <<"\n">> \o (IF token.translation THEN TranslationLit \o <<" ">> ELSE <<>>)
        \o <<"[">> \o token.language \o <<"]", " ">>

\* _render_tokens: one iteration of the loop, from the locals l to the
\* locals after the token (text_parts is kept joined)
RenderToken(token, l) ==
    IF token.text = <<>> THEN l
    ELSE
    LET spkChg == SpeakerChanged(token, l.current_speaker)
        parts1 == IF spkChg
                  THEN l.text_parts \o SpeakerTag(token, l.current_speaker)
                  ELSE l.text_parts
        spk1 == IF spkChg THEN token.speaker ELSE l.current_speaker
        lang1 == IF spkChg THEN None ELSE l.current_language
        langChg == LanguageChanged(token, lang1)
        parts2 == IF langChg THEN parts1 \o LanguageTag(token) ELSE parts1
        lang2 == IF langChg THEN token.language ELSE lang1
        text == IF langChg THEN lstrip(token.text) ELSE token.text
    IN  [current_speaker |-> spk1, current_language |-> lang2,
         text_parts |-> parts2 \o text]

\* _render_tokens: the loop from token i on, with the locals
\* current_speaker, current_language and the joined text_parts
RECURSIVE RenderFrom(_, _, _, _, _)
RenderFrom(toks, i, spk, lang, parts) ==
    IF i > Len(toks) THEN parts
    ELSE LET l == RenderToken(toks[i], [current_speaker |-> spk,
                                        current_language |-> lang,
                                        text_parts |-> parts])
         IN  RenderFrom(toks, i + 1, l.current_speaker, l.current_language,
                        l.text_parts)

\* _render_tokens: "for token in final_tokens + non_final_tokens"
LoopTokensNonFinalFirst(final, non_final) == non_final \o final

LoopTokens(final, non_final) == final \o non_final

render_tokens(final, non_final) ==
    RenderFrom(LoopTokens(final, non_final), 1, None, None, <<>>)

\* ------------------------------------------------------------------ tokens
Tok(text, final, spk, lang) ==
    [text |-> text, is_final |-> final, speaker |-> spk, language |-> lang,
     translation |-> FALSE]

TokHel == Tok(<<"h", "e", "l">>, FALSE, None, None)
TokHello == Tok(<<"h", "e", "l", "l", "o">>, TRUE, None, None)
TokHowAre == Tok(<<"h", "o", "w", " ", "a", "r", "e">>, FALSE, None, None)
TokBlank == Tok(<<" ">>, FALSE, None, None)
TokEmpty == Tok(<<>>, TRUE, None, None)

\* the "tokens" lists the remote service sends in this model
Batches ==
    { <<TokHel>>, <<TokHello>>, <<TokHowAre>>, <<TokBlank, TokEmpty>> }

\* ------------------------------------------------------------------- state
VARIABLES
    websocket,              \* self._websocket: 0 is None, else a connection id
    receive_task,           \* self._receive_task: "None", or the task's position
    task_sock,              \* the connection the receive task reads from
    is_speaking,            \* self._is_speaking
    final_tokens,           \* self._final_tokens
    last_non_final_tokens,  \* self._last_non_final_tokens
    current_speaker,        \* self._current_speaker
    current_language,       \* self._current_language
    audio_frame_count,      \* self._audio_frame_count
    pc,                     \* position of process_frame
    open,                   \* connections that are open at the transport
    nConns,                 \* connections opened so far
    wire,                   \* messages sent to the remote service, in order
    inp,                    \* frames given to process_frame, in order
    out,                    \* frames pushed downstream, in order
    errors,                 \* number of push_error calls
    attempts,               \* calls of websockets.connect so far
    utt_tokens,             \* tokens merged since a start or stop signal last
                            \* cleared the buffers: "none", "some", "grace"
                            \* when final tokens came during a grace sleep, or
                            \* "discarded" when that start signal cleared the
                            \* tokens of an utterance in progress
    last_send,              \* what the send of the latest audio frame did,
    ctor,                   \* the construction of the service: the arguments
                            \* given, how far __init__ got, the fields set
    call,                   \* a method called on its own: its arguments and,
                            \* once it has returned, its result
    llm,                    \* the GroqLLMService: its fields, the context of
                            \* the aggregator, its API calls and its frames
    tts,                    \* the CartesiaTTSService: its fields and frames
    responder               \* the SimpleResponseService: its fields and frames

svc == <<websocket, receive_task, task_sock, is_speaking, audio_frame_count>>
bufs == <<final_tokens, last_non_final_tokens, current_speaker, current_language>>
env == <<open, nConns, wire, errors, attempts>>
io == <<inp, out>>
ghost == <<utt_tokens, last_send>>
others == <<llm, tts, responder>>
pure == <<ctor, call, others>>
vars == <<svc, bufs, env, io, ghost, pc, pure>>

FrameKinds ==
    {"StartFrame", "UserStartedSpeakingFrame", "UserStoppedSpeakingFrame",
     "AudioRawFrame", "EndFrame", "CancelFrame", "OtherFrame"}

Msg(c, k) == [conn |-> c, kind |-> k]
Fwd(k, i) == [kind |-> k, src |-> i, text |-> <<>>]
TranscriptionFrame(t, i) == [kind |-> "TranscriptionFrame", src |-> i, text |-> t]
LLMRunFrame(i) == [kind |-> "LLMRunFrame", src |-> i, text |-> <<>>]

\* -------------------------------------------------------------- construction
\* Python truth of an api key: None and the empty string are false
HasKey(k) == k # None /\ k # <<>>

\* the values a constructor argument takes in this model: the api_key
\* argument and SONIOX_API_KEY (None when unset), audio_format, sample_rate,
\* channels, and whether context and translation are None, an empty dict or
\* a dict with entries
KeyValues == {None, <<>>, <<"k">>}
FormatValues == {"auto", "pcm_s16le", "s16le", "mp3"}
RateValues == {0, 16000}
ChannelValues == {0, 1, 2}
DictValues == {"none", "empty", "entries"}

CtorArgs ==
    [api_key : KeyValues, env_key : KeyValues, audio_format : FormatValues,
     sample_rate : RateValues, channels : ChannelValues,
     context : DictValues, translation : DictValues]

\* the arguments the service of the frame-handling runs was built with
UsualArgs ==
    [api_key |-> <<"k">>, env_key |-> None, audio_format |-> "auto",
     sample_rate |-> 16000, channels |-> 1,
     context |-> "none", translation |-> "none"]

\* line 52: api_key or os.getenv("SONIOX_API_KEY")
ChosenKey(a) == IF HasKey(a.api_key) THEN a.api_key ELSE a.env_key

\* lines 55-66: the configuration fields, set after the key check
ConfigFields(a) ==
    [_api_key |-> ChosenKey(a), _model |-> "stt-rt-v3",
     _sample_rate |-> a.sample_rate, _audio_format |-> a.audio_format,
     _channels |-> a.channels, _language_hints |-> <<"en">>,
     _enable_language_identification |-> TRUE,
     _enable_speaker_diarization |-> TRUE,
     _enable_endpoint_detection |-> TRUE,
     _context |-> a.context, _translation |-> a.translation]

\* mutant: the key is checked after the configuration fields are set
init_CheckLast(a) ==
    IF HasKey(ChosenKey(a))
    THEN [args |-> a, at |-> "ready", fields |-> ConfigFields(a)]
    ELSE [args |-> a, at |-> "raised", fields |-> ConfigFields(a)]

\* __init__ (lines 51-66): the key is chosen and stored, ValueError is raised
\* when it is missing, else the configuration fields are set
init_(a) ==
    IF HasKey(ChosenKey(a))
    THEN [args |-> a, at |-> "ready", fields |-> ConfigFields(a)]
    ELSE [args |-> a, at |-> "raised", fields |-> [_api_key |-> ChosenKey(a)]]

\* no method is being examined on its own
NoCall == [fn |-> "none"]

\* GroqLLMService.__init__, lines 48-52, with an empty context at the
\* aggregator, no API call made and no frame handled
GroqFields ==
    [_pending_transcription |-> None,
     _conversation_history |-> <<>>,
     _last_llm_run_frame |-> FALSE,
     _processed_message_hashes |-> {},
     _last_context_message_count |-> 0,
     context |-> <<>>, calls |-> <<>>, inp |-> <<>>, out |-> <<>>]

\* CartesiaTTSService.__init__, lines 56-58, with no frame handled
CartesiaFields ==
    [_websocket |-> FALSE, _text_buffer |-> <<>>, errors |-> 0,
     requests |-> <<>>, generation |-> "none", inp |-> <<>>, out |-> <<>>]

\* SimpleResponseService.__init__, line 88, with no frame handled
SimpleFields ==
    [_response_index |-> <<>>, inp |-> <<>>, out |-> <<>>]

\* the other services of the pipeline as constructed
OtherServices ==
    /\ llm = GroqFields
    /\ tts = CartesiaFields
    /\ responder = SimpleFields

\* lines 68-75: the run-time fields, and the environment before any frame
ServiceFields ==
    /\ websocket = 0
    /\ receive_task = "None"
    /\ task_sock = 0
    /\ is_speaking = FALSE
    /\ final_tokens = <<>>
    /\ last_non_final_tokens = <<>>
    /\ current_speaker = None
    /\ current_language = None
    /\ audio_frame_count = 0
    /\ pc = "idle"
    /\ open = {}
    /\ nConns = 0
    /\ wire = <<>>
    /\ inp = <<>>
    /\ out = <<>>
    /\ errors = 0
    /\ attempts = 0
    /\ utt_tokens = "none"
    /\ last_send = "none"

\* __init__, after the API key check
Init ==
    /\ ServiceFields
    /\ ctor = init_(UsualArgs)
    /\ call = NoCall
    /\ OtherServices

\* ---------------------------------------------------------------- reconnect
ReconnectOutcomes == {"ok", "connect_fail", "handshake_fail"}

\* mutant: the except branch does not clear the handle
ReconnectFailureKeepsHandle(opened, made) ==
    [websocket |-> made, receive_task |-> "None", task_sock |-> 0,
     open |-> opened, nConns |-> made, wire |-> wire,
     reset |-> FALSE, result |-> FALSE]

\* the except branch of _reconnect_websocket: handle cleared, False returned
ReconnectFailure(opened, made) ==
    [websocket |-> 0, receive_task |-> "None", task_sock |-> 0,
     open |-> opened, nConns |-> made, wire |-> wire,
     reset |-> FALSE, result |-> FALSE]

\* mutant: the handshake is not sent on the new connection
reconnect_websocketNoHandshake(res) ==
    LET closed == IF websocket # 0 THEN open \ {websocket} ELSE open
        new == nConns + 1
    IN  CASE res = "ok" ->
               [websocket |-> new, receive_task |-> "recv", task_sock |-> new,
                open |-> closed \cup {new}, nConns |-> new,
                wire |-> wire,
                reset |-> TRUE, result |-> TRUE]
          [] res = "connect_fail" -> ReconnectFailure(closed, nConns)
          [] res = "handshake_fail" -> ReconnectFailure(closed \cup {new}, new)

\* _reconnect_websocket, by what connect() and the handshake send do:
\* the fields it sets, whether it reset the token state, and its return value
reconnect_websocket(res) ==
    LET closed == IF websocket # 0 THEN open \ {websocket} ELSE open
        new == nConns + 1
    IN  CASE res = "ok" ->
               [websocket |-> new, receive_task |-> "recv", task_sock |-> new,
                open |-> closed \cup {new}, nConns |-> new,
                wire |-> Append(wire, Msg(new, "config")),
                reset |-> TRUE, result |-> TRUE]
          [] res = "connect_fail" -> ReconnectFailure(closed, nConns)
          [] res = "handshake_fail" -> ReconnectFailure(closed \cup {new}, new)

CanReconnect(res) == res \in ReconnectOutcomes /\ (res # "connect_fail" => nConns < MaxConns)

ApplyReconnect(r) ==
    /\ websocket' = r.websocket
    /\ receive_task' = r.receive_task
    /\ task_sock' = r.task_sock
    /\ open' = r.open
    /\ nConns' = r.nConns
    /\ wire' = r.wire
    /\ attempts' = attempts + 1

Accept(kind) ==
    /\ pc = "idle"
    /\ Len(inp) < MaxFrames
    /\ inp' = Append(inp, kind)

Push(frames) == out' = out \o frames

\* StartFrame: AIService.process_frame calls start(), then the frame is forwarded
HandleStartFrame ==
    /\ Accept("StartFrame")
    /\ \E res \in ReconnectOutcomes :
          /\ CanReconnect(res)
          /\ LET r == reconnect_websocket(res)
             IN  /\ ApplyReconnect(r)
                 /\ final_tokens' = IF r.reset THEN <<>> ELSE final_tokens
                 /\ last_non_final_tokens' =
                        IF r.reset THEN <<>> ELSE last_non_final_tokens
    /\ Push(<<Fwd("StartFrame", Len(inp) + 1)>>)
    /\ UNCHANGED <<is_speaking, audio_frame_count, current_speaker,
                   current_language, errors, ghost, pc>>
    /\ UNCHANGED pure

\* mutant: the buffers are kept when already speaking
ResetBufferIfIdle(speaking, buffer) == IF speaking THEN buffer ELSE <<>>

\* lines 317-318: the buffers are emptied, whatever the speaking flag was
ResetBuffer(speaking, buffer) == <<>>

\* mutant: the start signal never reconnects
NeedsReconnectNever(ws) == FALSE

\* line 323: reconnect when the handle is None
NeedsReconnect(ws) == ws = 0

\* UserStartedSpeakingFrame
HandleUserStarted ==
    /\ Accept("UserStartedSpeakingFrame")
    /\ is_speaking' = TRUE
    /\ final_tokens' = ResetBuffer(is_speaking, final_tokens)
    /\ last_non_final_tokens' = ResetBuffer(is_speaking, last_non_final_tokens)
    /\ current_speaker' = None
    /\ current_language' = None
    /\ utt_tokens' = IF is_speaking /\ final_tokens \o last_non_final_tokens # <<>>
                     THEN "discarded" ELSE "none"
    /\ IF NeedsReconnect(websocket)
       THEN \E res \in ReconnectOutcomes :
               CanReconnect(res) /\ ApplyReconnect(reconnect_websocket(res))
       ELSE UNCHANGED <<websocket, receive_task, task_sock, open, nConns, wire,
                        attempts>>
    /\ Push(<<Fwd("UserStartedSpeakingFrame", Len(inp) + 1)>>)
    /\ UNCHANGED <<audio_frame_count, errors, last_send, pc>>
    /\ UNCHANGED pure

\* ------------------------------------------------------------------- audio
\* mutant: the speaking flag is not tested
SendGuardHandleOnly(ws, speaking) == ws # 0

\* line 375: send only with a handle and while speaking
SendGuard(ws, speaking) == ws # 0 /\ speaking

\* what the transport can answer to a send on connection c
SendOutcomes(c) ==
    IF c \in open THEN {"ok", "exc_conn", "exc_other"} ELSE {"closed"}

\* mutant: only ConnectionClosed clears the handle
ClearsHandleClosedOnly(res) == res = "closed"

\* lines 385-398: which failures of the audio send clear the handle:
\* ConnectionClosed, and any exception whose text has "1000", "closed" or
\* "connection"
ClearsHandle(res) == res \in {"closed", "exc_conn"}

\* mutant: the frame is pushed only after a successful send
AudioForwardedIfSent(res) == res = "ok"

\* line 401: the audio frame is pushed downstream whatever the send did
AudioForwarded(res) == TRUE

\* mutant: a send on a closed connection reconnects at once
ReconnectsAfterSendClosed(res) == res = "closed"

\* lines 385-398: the except branches only clear the handle; none of them
\* calls _reconnect_websocket
ReconnectsAfterSend(res) == FALSE

\* AudioRawFrame
HandleAudio ==
    /\ Accept("AudioRawFrame")
    /\ IF SendGuard(websocket, is_speaking)
       THEN \E res \in SendOutcomes(websocket) :
              /\ last_send' = res
              /\ audio_frame_count' =
                     IF res = "ok" THEN audio_frame_count + 1 ELSE audio_frame_count
              /\ is_speaking' = IF ClearsHandle(res) THEN FALSE ELSE is_speaking
              /\ Push(IF AudioForwarded(res)
                      THEN <<Fwd("AudioRawFrame", Len(inp) + 1)>> ELSE <<>>)
              /\ IF ReconnectsAfterSend(res)
                 THEN \E r \in ReconnectOutcomes :
                         CanReconnect(r) /\ ApplyReconnect(reconnect_websocket(r))
                 ELSE /\ wire' = IF res = "ok"
                                 THEN Append(wire, Msg(websocket, "audio")) ELSE wire
                      /\ websocket' = IF ClearsHandle(res) THEN 0 ELSE websocket
                      /\ UNCHANGED <<receive_task, task_sock, open, nConns, attempts>>
       ELSE /\ last_send' = "skipped"
            /\ Push(<<Fwd("AudioRawFrame", Len(inp) + 1)>>)
            /\ UNCHANGED <<wire, audio_frame_count, websocket, is_speaking,
                           receive_task, task_sock, open, nConns, attempts>>
    /\ UNCHANGED <<bufs, errors, utt_tokens, pc>>
    /\ UNCHANGED pure

\* -------------------------------------------------------------------- stop
\* mutant: the non-final tail is rendered after the final tokens
ChooseTranscriptWithTail(final, non_final) ==
    IF final # <<>> THEN clean_transcription(render_tokens(final, non_final))
    ELSE IF non_final # <<>> THEN clean_transcription(render_tokens(<<>>, non_final))
    ELSE None

\* lines 346-356: final tokens preferred, non-final tokens as the fallback,
\* None when both buffers are empty
ChooseTranscript(final, non_final) ==
    IF final # <<>> THEN clean_transcription(render_tokens(final, <<>>))
    ELSE IF non_final # <<>> THEN clean_transcription(render_tokens(<<>>, non_final))
    ELSE None

\* mutant: only None is tested
ShouldEmitNotNone(text) == text # None

\* line 358: text_to_send and text_to_send.strip()
ShouldEmit(text) == text # None /\ text # <<>> /\ strip(text) # <<>>

\* mutant: the LLMRunFrame is forgotten
EmitFramesNoRun(text, i) == <<TranscriptionFrame(strip(text), i)>>

\* lines 360-363: the frames pushed for a transcript
EmitFrames(text, i) == <<TranscriptionFrame(strip(text), i), LLMRunFrame(i)>>

\* mutant: the non-final buffer is not cleared
FinishStopKeepsNonFinal ==
    /\ final_tokens' = <<>>
    /\ last_non_final_tokens' = last_non_final_tokens
    /\ pc' = "idle"

\* lines 367-371: buffers cleared, the stop frame forwarded
FinishStop ==
    /\ final_tokens' = <<>>
    /\ last_non_final_tokens' = <<>>
    /\ pc' = "idle"

\* mutant: a failed end-of-audio send ends the handler
HandleUserStoppedAbortsOnFailure ==
    /\ Accept("UserStoppedSpeakingFrame")
    /\ is_speaking' = FALSE
    /\ IF websocket # 0
       THEN \E res \in SendOutcomes(websocket) :
              /\ wire' = IF res = "ok" THEN Append(wire, Msg(websocket, "eoa")) ELSE wire
              /\ pc' = IF res = "ok" THEN "stop_sleep" ELSE "idle"
       ELSE wire' = wire /\ pc' = "stop_sleep"
    /\ UNCHANGED <<websocket, receive_task, task_sock, audio_frame_count, bufs,
                   open, nConns, errors, attempts, out, ghost>>
    /\ UNCHANGED pure

\* UserStoppedSpeakingFrame, up to the grace sleep (lines 331-343)
HandleUserStopped ==
    /\ Accept("UserStoppedSpeakingFrame")
    /\ is_speaking' = FALSE
    /\ IF websocket # 0
       THEN \E res \in SendOutcomes(websocket) :
              wire' = IF res = "ok" THEN Append(wire, Msg(websocket, "eoa")) ELSE wire
       ELSE wire' = wire
    /\ pc' = "stop_sleep"
    /\ UNCHANGED <<websocket, receive_task, task_sock, audio_frame_count, bufs,
                   open, nConns, errors, attempts, out, ghost>>
    /\ UNCHANGED pure

\* after the sleep (lines 345-371): the transcript is chosen; either the
\* TranscriptionFrame is pushed, or nothing is and the handler finishes
StopChoose ==
    /\ pc = "stop_sleep"
    /\ LET text_to_send == ChooseTranscript(final_tokens, last_non_final_tokens)
       IN  IF ShouldEmit(text_to_send)
           THEN /\ Push(<<EmitFrames(text_to_send, Len(inp))[1]>>)
                /\ pc' = IF Len(EmitFrames(text_to_send, Len(inp))) > 1
                         THEN "stop_run" ELSE "stop_finish"
                /\ UNCHANGED <<final_tokens, last_non_final_tokens, utt_tokens>>
           ELSE /\ FinishStop
                /\ utt_tokens' = "none"
                /\ Push(<<Fwd("UserStoppedSpeakingFrame", Len(inp))>>)
    /\ UNCHANGED <<svc, current_speaker, current_language, env, inp, last_send>>
    /\ UNCHANGED pure

\* line 363: the LLMRunFrame is pushed
StopRun ==
    /\ pc = "stop_run"
    /\ Push(<<LLMRunFrame(Len(inp))>>)
    /\ pc' = "stop_finish"
    /\ UNCHANGED <<svc, bufs, env, inp, ghost>>
    /\ UNCHANGED pure

\* lines 367-371 after a transcript
StopFinish ==
    /\ pc = "stop_finish"
    /\ FinishStop
    /\ utt_tokens' = "none"
    /\ Push(<<Fwd("UserStoppedSpeakingFrame", Len(inp))>>)
    /\ UNCHANGED <<svc, current_speaker, current_language, env, inp, last_send>>
    /\ UNCHANGED pure

\* ---------------------------------------------------- end, cancel, others
\* mutant: stop() goes on to close the connection without cancelling the task
HandleEndNoCancel(kind) ==
    /\ kind \in {"EndFrame", "CancelFrame"}
    /\ Accept(kind)
    /\ pc' = "end_close"
    /\ UNCHANGED <<svc, bufs, env, out, ghost>>
    /\ UNCHANGED pure

\* stop(), lines 166-171: the receive task is cancelled and awaited.
\* EndFrame runs stop(); CancelFrame runs cancel(), which calls stop()
HandleEnd(kind) ==
    /\ kind \in {"EndFrame", "CancelFrame"}
    /\ Accept(kind)
    /\ receive_task' = IF receive_task = "None" THEN "None" ELSE "done"
    /\ task_sock' = 0
    /\ pc' = "end_close"
    /\ UNCHANGED <<websocket, is_speaking, audio_frame_count, bufs, env, out,
                   ghost>>
    /\ UNCHANGED pure

\* mutant: closing a connection that is already closed fails and the handle
\* is left as it is
EndCloseKeepsClosedHandle ==
    /\ pc = "end_close"
    /\ open' = IF websocket # 0 THEN open \ {websocket} ELSE open
    /\ websocket' = IF websocket \in open THEN 0 ELSE websocket
    /\ Push(<<Fwd(inp[Len(inp)], Len(inp))>>)
    /\ pc' = "idle"
    /\ UNCHANGED <<receive_task, task_sock, is_speaking, audio_frame_count, bufs,
                   nConns, wire, errors, attempts, inp, ghost>>
    /\ UNCHANGED pure

\* stop(), lines 173-178: the connection is closed and the handle cleared;
\* then process_frame forwards the frame (line 403)
EndClose ==
    /\ pc = "end_close"
    /\ open' = IF websocket # 0 THEN open \ {websocket} ELSE open
    /\ websocket' = 0
    /\ Push(<<Fwd(inp[Len(inp)], Len(inp))>>)
    /\ pc' = "idle"
    /\ UNCHANGED <<receive_task, task_sock, is_speaking, audio_frame_count, bufs,
                   nConns, wire, errors, attempts, inp, ghost>>
    /\ UNCHANGED pure

\* mutant: the frame is pushed by the handler and once more
HandleOtherTwice ==
    /\ Accept("OtherFrame")
    /\ Push(<<Fwd("OtherFrame", Len(inp) + 1), Fwd("OtherFrame", Len(inp) + 1)>>)
    /\ UNCHANGED <<svc, bufs, env, ghost, pc>>
    /\ UNCHANGED pure

\* line 403: every other frame is only forwarded
HandleOther ==
    /\ Accept("OtherFrame")
    /\ Push(<<Fwd("OtherFrame", Len(inp) + 1)>>)
    /\ UNCHANGED <<svc, bufs, env, ghost, pc>>
    /\ UNCHANGED pure

\* ------------------------------------------------------------ receive loop
\* lines 268-278: the tokens with text, split by is_final
RECURSIVE FinalsOf(_)
FinalsOf(batch) ==
    IF batch = <<>> THEN <<>>
    ELSE (IF Head(batch).text # <<>> /\ Head(batch).is_final
          THEN <<Head(batch)>> ELSE <<>>) \o FinalsOf(Tail(batch))

RECURSIVE NonFinalsOf(_)
NonFinalsOf(batch) ==
    IF batch = <<>> THEN <<>>
    ELSE (IF Head(batch).text # <<>> /\ ~Head(batch).is_final
          THEN <<Head(batch)>> ELSE <<>>) \o NonFinalsOf(Tail(batch))

\* mutant: final tokens are appended only while the session is speaking
MergeFinalWhileSpeaking(final, batch) ==
    IF is_speaking THEN final \o FinalsOf(batch) ELSE final

\* line 275: final tokens are appended
MergeFinal(final, batch) == final \o FinalsOf(batch)

\* mutant: the non-final tokens of the batch are added to the buffer
MergeNonFinalAppend(non_final, batch) == non_final \o NonFinalsOf(batch)

\* line 281: the non-final tokens of the batch replace the buffer
MergeNonFinal(non_final, batch) == NonFinalsOf(batch)

\* line 239: the loop goes on while the handle is set
LoopContinues(ws) == ws # 0

\* the task is waiting in recv() on an open connection
Receiving == receive_task = "recv" /\ task_sock \in open

\* back at the while test after a message
NextIteration ==
    /\ receive_task' = IF LoopContinues(websocket) THEN "recv" ELSE "done"
    /\ task_sock' = IF LoopContinues(websocket) THEN task_sock ELSE 0

\* mutant: a batch with final tokens pushes the text rendered so far
LoopFramesOnFinal(final, batch, i) ==
    IF FinalsOf(batch) # <<>>
    THEN <<TranscriptionFrame(clean_transcription(render_tokens(final, <<>>)), i)>>
    ELSE <<>>

\* lines 283-291: the rendered texts are only logged, nothing is pushed
LoopFrames(final, batch, i) == <<>>

\* a message with a "tokens" list (lines 264-291)
RecvTokens(batch) ==
    /\ Receiving
    /\ Len(final_tokens) + Len(FinalsOf(batch)) <= MaxFinal
    /\ final_tokens' = MergeFinal(final_tokens, batch)
    /\ last_non_final_tokens' = MergeNonFinal(last_non_final_tokens, batch)
    /\ utt_tokens' =
          IF FinalsOf(batch) \o NonFinalsOf(batch) = <<>> THEN utt_tokens
          ELSE IF utt_tokens = "grace" \/ (pc = "stop_sleep" /\ FinalsOf(batch) # <<>>)
          THEN "grace" ELSE "some"
    /\ Push(LoopFrames(MergeFinal(final_tokens, batch), batch, Len(inp)))
    /\ NextIteration
    /\ UNCHANGED <<websocket, is_speaking, audio_frame_count, current_speaker,
                   current_language, env, inp, last_send, pc>>
    /\ UNCHANGED pure

\* mutant: a "finished" message empties the final buffer
RecvFinishedClearsFinals ==
    /\ Receiving
    /\ NextIteration
    /\ final_tokens' = <<>>
    /\ UNCHANGED <<websocket, is_speaking, audio_frame_count,
                   last_non_final_tokens, current_speaker, current_language,
                   env, io, ghost, pc>>
    /\ UNCHANGED pure

\* a message with "finished" (lines 260-262)
RecvFinished ==
    /\ Receiving
    /\ NextIteration
    /\ UNCHANGED <<websocket, is_speaking, audio_frame_count, bufs, env, io,
                   ghost, pc>>
    /\ UNCHANGED pure

\* a message json.loads rejects (lines 302-303)
RecvMalformed ==
    /\ Receiving
    /\ NextIteration
    /\ UNCHANGED <<websocket, is_speaking, audio_frame_count, bufs, env, io,
                   ghost, pc>>
    /\ UNCHANGED pure

\* a message that is JSON but not an object: data.get raises AttributeError,
\* which only the outer handler catches (lines 307-308); the loop ends and
\* the handle is left as it is
RecvNonObject ==
    /\ Receiving
    /\ receive_task' = "done"
    /\ task_sock' = 0
    /\ UNCHANGED <<websocket, is_speaking, audio_frame_count, bufs, env, io,
                   ghost, pc>>
    /\ UNCHANGED pure

\* a message with an error_code (lines 245-248): push_error is awaited
RecvError ==
    /\ Receiving
    /\ receive_task' = "err_push"
    /\ errors' = errors + 1
    /\ UNCHANGED <<websocket, task_sock, is_speaking, audio_frame_count, bufs,
                   open, nConns, wire, attempts, io, ghost, pc>>
    /\ UNCHANGED pure

\* mutant: the loop leaves without clearing the handle
ErrorExitKeepsHandle ==
    /\ websocket' = websocket
    /\ is_speaking' = FALSE
    /\ receive_task' = "done"
    /\ task_sock' = 0

\* lines 255-257: handle cleared, speaking flag cleared, loop left
ErrorExit ==
    /\ websocket' = 0
    /\ is_speaking' = FALSE
    /\ receive_task' = "done"
    /\ task_sock' = 0

\* lines 250-252: after push_error, close() is awaited if the handle is set
ErrPushed ==
    /\ receive_task = "err_push"
    /\ IF websocket # 0
       THEN /\ receive_task' = "err_close"
            /\ UNCHANGED <<websocket, is_speaking, task_sock>>
       ELSE ErrorExit
    /\ UNCHANGED <<audio_frame_count, bufs, env, io, ghost, pc>>
    /\ UNCHANGED pure

\* close() returned (or raised, which is swallowed)
ErrClosed ==
    /\ receive_task = "err_close"
    /\ open' = open \ {task_sock}
    /\ ErrorExit
    /\ UNCHANGED <<audio_frame_count, bufs, nConns, wire, errors, attempts, io,
                   ghost, pc>>
    /\ UNCHANGED pure

\* mutant: the closure ends the loop and the handle is kept
ClosedExitKeepsHandle ==
    /\ websocket' = websocket
    /\ receive_task' = "done"
    /\ task_sock' = 0

\* lines 295-296 and 300-301: handle cleared, loop left
ClosedExit ==
    /\ websocket' = 0
    /\ receive_task' = "done"
    /\ task_sock' = 0

\* mutant: the closure also clears the speaking flag
RecvClosedClearsSpeaking ==
    /\ receive_task = "recv"
    /\ task_sock \notin open
    /\ websocket' = 0
    /\ is_speaking' = FALSE
    /\ receive_task' = "done"
    /\ task_sock' = 0
    /\ UNCHANGED <<audio_frame_count, bufs, env, io, ghost, pc>>
    /\ UNCHANGED pure

\* recv() raises ConnectionClosed (lines 293-301)
RecvClosed ==
    /\ receive_task = "recv"
    /\ task_sock \notin open
    /\ ClosedExit
    /\ UNCHANGED <<is_speaking, audio_frame_count, bufs, env, io, ghost, pc>>
    /\ UNCHANGED pure

\* ------------------------------------------------------------- environment
\* the remote service, or the network, closes a connection the service
\* still uses (a connection it holds no reference to has no further effect)
ServerClose(c) ==
    /\ c \in open
    /\ c \in {websocket, task_sock}
    /\ open' = open \ {c}
    /\ UNCHANGED <<svc, bufs, nConns, wire, errors, attempts, io, ghost, pc>>
    /\ UNCHANGED pure

process_frame ==
    \/ HandleStartFrame
    \/ HandleUserStarted
    \/ HandleAudio
    \/ HandleUserStopped
    \/ StopChoose
    \/ StopRun
    \/ StopFinish
    \/ \E kind \in {"EndFrame", "CancelFrame"} : HandleEnd(kind)
    \/ EndClose
    \/ HandleOther

receive_loop ==
    \/ \E batch \in Batches : RecvTokens(batch)
    \/ RecvFinished
    \/ RecvMalformed
    \/ RecvNonObject
    \/ RecvError
    \/ ErrPushed
    \/ ErrClosed
    \/ RecvClosed

Next ==
    \/ process_frame
    \/ receive_loop
    \/ \E c \in 1..MaxConns : ServerClose(c)

Spec == Init /\ [][Next]_vars

\* the steps of Next within the first MaxDrainFrames frames
DrainNext == Next /\ Len(inp') <= MaxDrainFrames

\* line 343: asyncio.sleep(0.5) returns and the stop handler goes on; this
\* is the step StopChoose, told by what it does to the handler's position
GraceOver == pc = "stop_sleep" /\ pc' \in {"stop_run", "stop_finish", "idle"}

\* the stop handler's awaits return: the sleep at line 343 ends after the
\* interval and each push_frame (lines 362, 363, 369, 371) hands the frame
\* on, so each step of a started stop handler is eventually taken
DrainSpec ==
    /\ Init /\ [][DrainNext]_vars
    /\ WF_pc(GraceOver) /\ WF_vars(StopRun) /\ WF_vars(StopFinish)

\* ------------------------------------------- construction and the handshake
\* a dict argument is entered in the config when it is true in Python
HasEntries(d) == d = "entries"

\* a function with no argument, to build configs field by field
NoField == [x \in {} |-> x]

\* mutant: the alias "s16le" is passed on as it is
AudioFieldsNoAlias(f) ==
    IF f._audio_format = "auto" THEN "audio_format" :> "auto"
    ELSE IF f._audio_format = "pcm_s16le"
    THEN ("audio_format" :> "pcm_s16le") @@ ("sample_rate" :> f._sample_rate)
            @@ ("num_channels" :> f._channels)
    ELSE ("audio_format" :> f._audio_format)
            @@ (IF f._sample_rate # 0 THEN "sample_rate" :> f._sample_rate ELSE NoField)
            @@ (IF f._channels # 0 THEN "num_channels" :> f._channels ELSE NoField)

\* lines 92-105: the audio-format fields of the config
AudioFields(f) ==
    IF f._audio_format = "auto" THEN "audio_format" :> "auto"
    ELSE IF f._audio_format = "pcm_s16le" \/ f._audio_format = "s16le"
    THEN ("audio_format" :> "pcm_s16le") @@ ("sample_rate" :> f._sample_rate)
            @@ ("num_channels" :> f._channels)
    ELSE ("audio_format" :> f._audio_format)
            @@ (IF f._sample_rate # 0 THEN "sample_rate" :> f._sample_rate ELSE NoField)
            @@ (IF f._channels # 0 THEN "num_channels" :> f._channels ELSE NoField)

\* _get_config (lines 76-110), from the fields of the service
get_config(f) ==
    [api_key |-> f._api_key, model |-> f._model,
     language_hints |-> f._language_hints,
     enable_language_identification |-> f._enable_language_identification,
     enable_speaker_diarization |-> f._enable_speaker_diarization,
     enable_endpoint_detection |-> f._enable_endpoint_detection]
    @@ (IF HasEntries(f._context) THEN "context" :> f._context ELSE NoField)
    @@ AudioFields(f)
    @@ (IF HasEntries(f._translation) THEN "translation" :> f._translation ELSE NoField)

\* the constructor has not run yet, for any of the argument values
ConfigInit ==
    /\ ServiceFields
    /\ ctor \in {[args |-> a, at |-> "new", fields |-> NoField] : a \in CtorArgs}
    /\ call = NoCall
    /\ OtherServices

\* SonioxSTTService(...) is called
Construct ==
    /\ ctor.at = "new"
    /\ ctor' = init_(ctor.args)
    /\ UNCHANGED <<svc, bufs, env, io, ghost, pc, call, others>>

\* _get_config() is called on the constructed service
CallGetConfig ==
    /\ ctor.at = "ready"
    /\ call = NoCall
    /\ call' = [fn |-> "_get_config", result |-> get_config(ctor.fields)]
    /\ UNCHANGED <<svc, bufs, env, io, ghost, pc, ctor, others>>

\* the constructed service gets its StartFrame
ConfigStart ==
    /\ ctor.at = "ready"
    /\ inp = <<>>
    /\ HandleStartFrame

ConfigNext ==
    \/ Construct
    \/ CallGetConfig
    \/ ConfigStart

ConfigSpec == ConfigInit /\ [][ConfigNext]_vars

\* ------------------------------------------------------------- rendering
\* a token of the remote service with its speaker, language and
\* translation_status fields
Speech(text, spk, lang, translation) ==
    [Tok(text, TRUE, spk, lang) EXCEPT !.translation = translation]

Hi == <<"h", "i">>
There == <<" ", "t", "h", "e", "r", "e">>
Word == <<"t", "h", "e", "r", "e">>
One == <<"1">>
Two == <<"2">>
En == <<"e", "n">>
Es == <<"e", "s">>

\* the tokens the calls of _render_tokens are made with
RenderTokens ==
    { Speech(Hi, None, None, FALSE),
      Speech(Hi, One, None, FALSE),
      Speech(There, Two, None, FALSE),
      Speech(Hi, One, En, FALSE),
      Speech(There, One, Es, TRUE),
      Speech(There, None, En, FALSE),
      Speech(<<>>, Two, Es, FALSE),
      Speech(There, Two, En, FALSE),
      Speech(Hi, None, Es, TRUE),
      Speech(Word, Two, None, FALSE),
      Speech(EndLit, None, None, FALSE) }

TokenLists(S, n) == UNION {[1..k -> S] : k \in 0..n}

\* _render_tokens(final_tokens, non_final_tokens) is entered
RenderCall(final, non_final) ==
    [fn |-> "_render_tokens", final |-> final, non_final |-> non_final,
     at |-> "loop", i |-> 1, current_speaker |-> None,
     current_language |-> None, text_parts |-> <<>>, returns |-> <<>>,
     cleaned |-> <<>>]

\* the tokens that are not final yet
NonFinal(toks) == [k \in DOMAIN toks |-> [toks[k] EXCEPT !.is_final = FALSE]]

\* a call of _render_tokens on a constructed service, for every token list
\* and every split of it into final and non-final tokens
RenderInit ==
    /\ ServiceFields
    /\ ctor = init_(UsualArgs)
    /\ \E toks \in TokenLists(RenderTokens, MaxRenderLen) :
          \E n \in 0..Len(toks) :
              call = RenderCall(SubSeq(toks, 1, n),
                                NonFinal(SubSeq(toks, n + 1, Len(toks))))
    /\ OtherServices

\* one iteration of the loop of _render_tokens
RenderStep ==
    /\ call.at = "loop"
    /\ call.i <= Len(LoopTokens(call.final, call.non_final))
    /\ LET l == RenderToken(LoopTokens(call.final, call.non_final)[call.i],
                            [current_speaker |-> call.current_speaker,
                             current_language |-> call.current_language,
                             text_parts |-> call.text_parts])
       IN  call' = [call EXCEPT !.i = @ + 1,
                                !.current_speaker = l.current_speaker,
                                !.current_language = l.current_language,
                                !.text_parts = l.text_parts]
    /\ UNCHANGED <<svc, bufs, env, io, ghost, pc, ctor, others>>

\* the loop is over: return "".join(text_parts)
RenderReturn ==
    /\ call.at = "loop"
    /\ call.i > Len(LoopTokens(call.final, call.non_final))
    /\ call' = [call EXCEPT !.at = "returned",
                            !.returns = Append(@, call.text_parts)]
    /\ UNCHANGED <<svc, bufs, env, io, ghost, pc, ctor, others>>

\* _render_tokens is called again with the same token lists
RenderAgain ==
    /\ call.at = "returned"
    /\ Len(call.returns) < MaxCalls
    /\ call' = [RenderCall(call.final, call.non_final)
                    EXCEPT !.returns = call.returns]
    /\ UNCHANGED <<svc, bufs, env, io, ghost, pc, ctor, others>>

\* _clean_transcription is called with the text _render_tokens returned
CleanRendered ==
    /\ call.at = "returned"
    /\ call' = [call EXCEPT !.at = "cleaned",
                            !.cleaned = clean_transcription(call.returns[Len(call.returns)])]
    /\ UNCHANGED <<svc, bufs, env, io, ghost, pc, ctor, others>>

RenderNext ==
    \/ RenderStep
    \/ RenderReturn
    \/ RenderAgain
    \/ CleanRendered

RenderSpec == RenderInit /\ [][RenderNext]_vars

\* ------------------------------------------------------- GroqLLMService
User == <<"u", "s", "e", "r">>
Assistant == <<"a", "s", "s", "i", "s", "t", "a", "n", "t">>
System == <<"s", "y", "s", "t", "e", "m">>
Blank == <<" ">>
Reply == <<"o", "k">>

\* lines 96 and 286: the text of the fallback response
Apology ==
    <<"I", " ", "a", "p", "o", "l", "o", "g", "i", "z", "e", ",",
      " ", "b", "u", "t", " ", "I", "'", "m", " ", "h", "a", "v",
      "i", "n", "g", " ", "t", "r", "o", "u", "b", "l", "e", " ",
      "p", "r", "o", "c", "e", "s", "s", "i", "n", "g", " ", "t",
      "h", "a", "t", " ", "r", "i", "g", "h", "t", " ", "n", "o",
      "w", ".", " ", "C", "o", "u", "l", "d", " ", "y", "o", "u",
      " ", "p", "l", "e", "a", "s", "e", " ", "t", "r", "y", " ",
      "a", "g", "a", "i", "n", "?">>

\* lines 198-199: the system prompt of the fallback messages
SystemPrompt ==
    <<"Y", "o", "u", " ", "a", "r", "e", " ", "a", " ", "h", "e",
      "l", "p", "f", "u", "l", " ", "a", "n", "d", " ", "f", "r",
      "i", "e", "n", "d", "l", "y", " ", "a", "s", "s", "i", "s",
      "t", "a", "n", "t", ".", " ", "K", "e", "e", "p", " ", "y",
      "o", "u", "r", " ", "r", "e", "s", "p", "o", "n", "s", "e",
      "s", " ", "c", "o", "n", "c", "i", "s", "e", " ", "a", "n",
      "d", " ", "n", "a", "t", "u", "r", "a", "l", " ", "f", "o",
      "r", " ", "v", "o", "i", "c", "e", " ", "c", "o", "n", "v",
      "e", "r", "s", "a", "t", "i", "o", "n", ".">>

Message(role, content) == [role |-> role, content |-> content]

\* the texts of the user turns, the empty one included
UserTexts == {Hi, Word, <<>>}

\* the texts of the TranscriptionFrames
TranscriptTexts == {Hi, Blank}

\* what the Groq API does with a request: it answers, or the call raises
ApiOutcomes == {"ok", "raise"}

\* line 167: the md5 digest of "role:content"; the digest is taken to be
\* different for different strings and is modelled by the string it digests
Hash(role, content) == role \o <<":">> \o content

\* lines 223-231: the messages with content, as the API gets them
RECURSIVE groq_messages(_)
groq_messages(messages) ==
    IF messages = <<>> THEN <<>>
    ELSE (IF Head(messages).content # <<>> THEN <<Head(messages)>> ELSE <<>>)
             \o groq_messages(Tail(messages))

\* lines 258-265: the user and assistant messages with content are added to
\* the history unless their content is in it already
RECURSIVE AddToHistory(_, _)
AddToHistory(history, messages) ==
    IF messages = <<>> THEN history
    ELSE LET msg == Head(messages)
             new == /\ msg.role \in {User, Assistant}
                    /\ msg.content # <<>>
                    /\ \A k \in DOMAIN history : history[k].content # msg.content
         IN  AddToHistory(IF new THEN Append(history, msg) ELSE history,
                          Tail(messages))

\* lines 271-273: the last 20 messages are kept
KeepLast(history) ==
    IF Len(history) > 20 THEN SubSeq(history, Len(history) - 19, Len(history))
    ELSE history

\* the three frames of a response, for the frame numbered i
ResponseFrames(text, i) ==
    << [kind |-> "LLMFullResponseStartFrame", src |-> i, text |-> <<>>],
       [kind |-> "TextFrame", src |-> i, text |-> text],
       [kind |-> "LLMFullResponseEndFrame", src |-> i, text |-> <<>>] >>

\* _process_messages, lines 219-287, for the frame numbered i and the
\* outcome res of the API call: the request made, the history afterwards
\* and the frames pushed
process_messages(messages, history, res, i) ==
    IF groq_messages(messages) = <<>>
    THEN [calls |-> <<>>, history |-> history, frames |-> <<>>]
    ELSE IF res = "ok"
    THEN [calls |-> <<groq_messages(messages)>>,
          history |-> KeepLast(Append(AddToHistory(history, messages),
                                      Message(Assistant, Reply))),
          frames |-> ResponseFrames(Reply, i)]
    ELSE [calls |-> <<groq_messages(messages)>>,
          history |-> history,
          frames |-> ResponseFrames(Apology, i)]

\* the requests r made to the API, with the branch that made them
Requests(branch, r) ==
    [k \in DOMAIN r |-> [branch |-> branch, messages |-> r[k]]]

\* the frames handled by the service so far are fewer than the bound
GroqAccept(kind) ==
    /\ Len(llm.inp) < MaxLLMFrames
    /\ UNCHANGED <<svc, bufs, env, io, ghost, pc, ctor, call, tts, responder>>

\* the contexts an LLMContextFrame can carry when the one before it carried
\* c: the same context, the context with a user turn added, after a
\* response of the assistant or not, or with that response alone, and a new
\* context that is empty or has one user turn
Contexts(c) ==
    LET turns == {<<Message(User, text)>> : text \in UserTexts}
        reply == <<Message(Assistant, Reply)>>
        answered == c # <<>> /\ c[Len(c)].role = User
    IN  {c, <<>>} \cup turns \cup {c \o t : t \in turns}
            \cup (IF answered THEN {c \o reply} \cup {c \o reply \o t : t \in turns}
                   ELSE {})

\* lines 100-106: a TranscriptionFrame is stored if it is not blank, and
\* forwarded
GroqTranscription(text) ==
    /\ GroqAccept("TranscriptionFrame")
    /\ llm' = [llm EXCEPT
           !._pending_transcription = IF strip(text) # <<>> THEN strip(text) ELSE @,
           !.inp = Append(@, "TranscriptionFrame"),
           !.out = Append(@, [kind |-> "TranscriptionFrame",
                              src |-> Len(llm.inp) + 1, text |-> text])]

\* lines 110-115: an LLMRunFrame sets the flag and is forwarded
GroqRun ==
    /\ GroqAccept("LLMRunFrame")
    /\ llm' = [llm EXCEPT
           !._last_llm_run_frame = TRUE,
           !.inp = Append(@, "LLMRunFrame"),
           !.out = Append(@, LLMRunFrame(Len(llm.inp) + 1))]

\* lines 161-175: the last message of the context is to be processed
ShouldProcessIfNew(messages, s) ==
    LET last == messages[Len(messages)]
    IN  /\ last.role = User
        /\ last.content # <<>>
        /\ Hash(last.role, last.content) \notin s._processed_message_hashes

ShouldProcess(messages, s) ==
    LET last == messages[Len(messages)]
    IN  /\ last.role = User
        /\ last.content # <<>>
        /\ Hash(last.role, last.content) \notin s._processed_message_hashes
        /\ \/ Len(messages) > s._last_context_message_count
           \/ s._last_llm_run_frame

\* lines 195-205: the messages of the fallback, built from the history and
\* the stored transcription
fallback_messages(s) ==
    (IF s._conversation_history = <<>>
     THEN <<Message(System, SystemPrompt)>> ELSE <<>>)
        \o s._conversation_history
        \o <<Message(User, s._pending_transcription)>>

\* lines 120-214: an LLMContextFrame with a context of the aggregator
GroqContext ==
    /\ GroqAccept("LLMContextFrame")
    /\ \E res \in ApiOutcomes, messages \in Contexts(llm.context) :
          LET i == Len(llm.inp) + 1
              frame == Fwd("LLMContextFrame", i)
              handled == [llm EXCEPT !.inp = Append(@, "LLMContextFrame"),
                                     !.context = messages]
          IN  IF messages # <<>>
              THEN IF ShouldProcess(messages, llm)
                   THEN LET r == process_messages(messages,
                                     llm._conversation_history, res, i)
                            last == messages[Len(messages)]
                        IN  llm' = [handled EXCEPT
                                !._conversation_history = r.history,
                                !._processed_message_hashes =
                                    @ \cup {Hash(last.role, last.content)},
                                !._last_context_message_count = Len(messages),
                                !._last_llm_run_frame = FALSE,
                                !.calls = @ \o Requests("context", r.calls),
                                !.out = @ \o r.frames \o <<frame>>]
                   ELSE /\ res = "ok"
                        /\ llm' = [handled EXCEPT !.out = Append(@, frame)]
              ELSE IF llm._pending_transcription # None
                   THEN LET r == process_messages(fallback_messages(llm),
                                     llm._conversation_history, res, i)
                        IN  llm' = [handled EXCEPT
                                !._conversation_history = r.history,
                                !._pending_transcription = None,
                                !.calls = @ \o Requests("fallback", r.calls),
                                !.out = @ \o r.frames \o <<frame>>]
                   ELSE /\ res = "ok"
                        /\ llm' = [handled EXCEPT !.out = Append(@, frame)]

\* lines 66-97: an LLMMessagesFrame with the messages of the latest
\* context; it is forwarded only when no message has content
GroqMessages ==
    /\ GroqAccept("LLMMessagesFrame")
    /\ \E res \in ApiOutcomes :
          LET i == Len(llm.inp) + 1
              messages == llm.context
              handled == [llm EXCEPT !.inp = Append(@, "LLMMessagesFrame")]
          IN  IF groq_messages(messages) = <<>>
              THEN /\ res = "ok"
                   /\ llm' = [handled EXCEPT
                          !.out = Append(@, Fwd("LLMMessagesFrame", i))]
              ELSE LET r == process_messages(messages,
                                llm._conversation_history, res, i)
                   IN  llm' = [handled EXCEPT
                           !._conversation_history = r.history,
                           !.calls = @ \o Requests("messages", r.calls),
                           !.out = @ \o r.frames]

\* lines 215-217: every other frame is forwarded
GroqOther ==
    /\ GroqAccept("OtherFrame")
    /\ llm' = [llm EXCEPT !.inp = Append(@, "OtherFrame"),
                          !.out = Append(@, Fwd("OtherFrame", Len(llm.inp) + 1))]

GroqNext ==
    \/ \E text \in TranscriptTexts : GroqTranscription(text)
    \/ GroqRun
    \/ GroqContext
    \/ GroqMessages
    \/ GroqOther

GroqSpec == Init /\ [][GroqNext]_vars

\* --------------------------------------------------- CartesiaTTSService
\* the texts of the TextFrames
ResponseTexts == {Hi, Blank}

\* what a speech request does: the audio chunks it yields, and whether it
\* raises after them (at the send itself when there are none)
SpeechOutcomes == [chunks : 0..MaxChunks, raised : BOOLEAN]

TTSFrame(kind, i) == [kind |-> kind, src |-> i, text |-> <<>>]

\* lines 151-157: one TTSAudioRawFrame for each chunk
AudioFrames(n, i) == [k \in 1..n |-> TTSFrame("TTSAudioRawFrame", i)]

\* _generate_speech, lines 96-130: without a connection nothing is
\* yielded; an exception is reported with push_error and ends the chunks
generate_speech(s, res) ==
    IF ~s._websocket THEN [chunks |-> 0, errors |-> 0, requests |-> <<>>]
    ELSE [chunks |-> res.chunks,
          errors |-> IF res.raised THEN 1 ELSE 0,
          requests |-> <<s._text_buffer>>]

\* line 162: the buffer after the speech of its text
BufferAfterSpeechKept(buffer) == buffer

BufferAfterSpeech(buffer) == <<>>

TtsAccept(kind) ==
    /\ Len(tts.inp) < MaxTTSFrames
    /\ UNCHANGED <<svc, bufs, env, io, ghost, pc, ctor, call, llm, responder>>

\* start, lines 60-74, called for a StartFrame, which is then forwarded
TtsStart ==
    /\ TtsAccept("StartFrame")
    /\ \E ok \in BOOLEAN :
          tts' = [tts EXCEPT
              !._websocket = IF ok THEN TRUE ELSE @,
              !.errors = IF ok THEN @ ELSE @ + 1,
              !.inp = Append(@, "StartFrame"),
              !.out = Append(@, Fwd("StartFrame", Len(tts.inp) + 1))]

\* stop, lines 76-94, called for an EndFrame or a CancelFrame, which is then
\* forwarded; the handle is kept when close() raises
TtsStop(kind) ==
    /\ TtsAccept(kind)
    /\ \E closed \in BOOLEAN :
          tts' = [tts EXCEPT
              !._websocket = IF closed THEN FALSE ELSE @,
              !.inp = Append(@, kind),
              !.out = Append(@, Fwd(kind, Len(tts.inp) + 1))]

\* lines 136-140: a TextFrame is added to the buffer and not forwarded
TtsText(text) ==
    /\ TtsAccept("TextFrame")
    /\ tts' = [tts EXCEPT
           !._text_buffer = @ \o text,
           !.inp = Append(@, "TextFrame")]

\* lines 142-171: an LLMFullResponseEndFrame
TtsResponseEnd ==
    /\ TtsAccept("LLMFullResponseEndFrame")
    /\ LET i == Len(tts.inp) + 1
           frame == Fwd("LLMFullResponseEndFrame", i)
           handled == [tts EXCEPT !.inp = Append(@, "LLMFullResponseEndFrame")]
       IN  IF strip(tts._text_buffer) # <<>>
           THEN \E res \in SpeechOutcomes :
                   /\ ~tts._websocket => res = [chunks |-> 0, raised |-> FALSE]
                   /\ LET g == generate_speech(tts, res)
                      IN  tts' = [handled EXCEPT
                              !._text_buffer = BufferAfterSpeech(@),
                              !.errors = @ + g.errors,
                              !.requests = @ \o g.requests,
                              !.generation =
                                  IF ~tts._websocket THEN "absent"
                                  ELSE IF res.raised THEN "raised" ELSE "ok",
                              !.out = @ \o <<TTSFrame("TTSStartedFrame", i)>>
                                        \o AudioFrames(g.chunks, i)
                                        \o <<TTSFrame("TTSStoppedFrame", i)>>
                                        \o <<frame>>]
           ELSE tts' = [handled EXCEPT !.generation = "none",
                                       !.out = Append(@, frame)]

\* lines 172-173: every other frame is forwarded
TtsOther ==
    /\ TtsAccept("OtherFrame")
    /\ tts' = [tts EXCEPT !.inp = Append(@, "OtherFrame"),
                          !.out = Append(@, Fwd("OtherFrame", Len(tts.inp) + 1))]

TtsNext ==
    \/ TtsStart
    \/ \E kind \in {"EndFrame", "CancelFrame"} : TtsStop(kind)
    \/ \E text \in ResponseTexts : TtsText(text)
    \/ TtsResponseEnd
    \/ TtsOther

TtsSpec == Init /\ [][TtsNext]_vars

\* ---------------------------------------------------- SimpleResponseService
\* the frames the responder is given in one run
MaxSimpleFrames == 4

UpperCase ==
    <<"A", "B", "C", "D", "E", "F", "G", "H", "I", "J", "K", "L", "M",
      "N", "O", "P", "Q", "R", "S", "T", "U", "V", "W", "X", "Y", "Z">>
LowerCase ==
    <<"a", "b", "c", "d", "e", "f", "g", "h", "i", "j", "k", "l", "m",
      "n", "o", "p", "q", "r", "s", "t", "u", "v", "w", "x", "y", "z">>

\* str.lower()
lower(s) ==
    [i \in DOMAIN s |->
        IF \E k \in DOMAIN UpperCase : UpperCase[k] = s[i]
        THEN LowerCase[CHOOSE k \in DOMAIN UpperCase : UpperCase[k] = s[i]]
        ELSE s[i]]

\* \w of the re module
WordChar == Lower \cup {UpperCase[k] : k \in DOMAIN UpperCase} \cup Digit \cup {"_"}

\* \b before position i of s: a word character on exactly one side
WordBoundary(s, i) ==
    (i - 1 \in DOMAIN s /\ s[i - 1] \in WordChar) # (i \in DOMAIN s /\ s[i] \in WordChar)

\* line 98: re.search of \b(a|b|...)\b in s
re_search(pattern, s) ==
    \E p \in DOMAIN s, a \in DOMAIN pattern :
        /\ WordBoundary(s, p)
        /\ HasLit(s, p, pattern[a])
        /\ WordBoundary(s, p + Len(pattern[a]))

\* lines 28-86: the table self._responses in its order, each pattern
\* \b(a|b|...)\b given by its alternatives, the default list last under None
_responses ==
    <<[pattern |-> <<<<"h", "e", "l", "l", "o">>,
                      <<"h", "i">>,
                      <<"h", "e", "y">>,
                      <<"g", "r", "e", "e", "t", "i", "n", "g", "s">>>>,
       responses |-> <<<<"H", "e", "l", "l", "o", "!", " ", "N", "i",
                            "c", "e", " ", "t", "o", " ", "h", "e", "a",
                            "r", " ", "f", "r", "o", "m", " ", "y", "o",
                            "u", "!">>,
                        <<"H", "i", " ", "t", "h", "e", "r", "e", "!",
                            " ", "H", "o", "w", " ", "c", "a", "n", " ",
                            "I", " ", "h", "e", "l", "p", " ", "y", "o",
                            "u", " ", "t", "o", "d", "a", "y", "?">>,
                        <<"H", "e", "y", "!", " ", "W", "h", "a", "t",
                            "'", "s", " ", "o", "n", " ", "y", "o", "u",
                            "r", " ", "m", "i", "n", "d", "?">>>>],
      [pattern |-> <<<<"h", "o", "w", " ", "a", "r", "e", " ", "y",
                            "o", "u">>,
                      <<"h", "o", "w", "'", "s", " ", "i", "t", " ",
                            "g", "o", "i", "n", "g">>,
                      <<"w", "h", "a", "t", "'", "s", " ", "u", "p">>>>,
       responses |-> <<<<"I", "'", "m", " ", "d", "o", "i", "n", "g",
                            " ", "g", "r", "e", "a", "t", ",", " ", "t",
                            "h", "a", "n", "k", "s", " ", "f", "o", "r",
                            " ", "a", "s", "k", "i", "n", "g", "!">>,
                        <<"I", "'", "m", " ", "f", "u", "n", "c", "t",
                            "i", "o", "n", "i", "n", "g", " ", "p", "e",
                            "r", "f", "e", "c", "t", "l", "y", "!", " ",
                            "H", "o", "w", " ", "a", "b", "o", "u", "t",
                            " ", "y", "o", "u", "?">>,
                        <<"A", "l", "l", " ", "s", "y", "s", "t", "e",
                            "m", "s", " ", "r", "u", "n", "n", "i", "n",
                            "g", " ", "s", "m", "o", "o", "t", "h", "l",
                            "y", "!">>>>],
      [pattern |-> <<<<"w", "h", "a", "t", "'", "s", " ", "y", "o",
                            "u", "r", " ", "n", "a", "m", "e">>,
                      <<"w", "h", "o", " ", "a", "r", "e", " ", "y",
                            "o", "u">>,
                      <<"y", "o", "u", "r", " ", "n", "a", "m", "e">>>>,
       responses |-> <<<<"I", "'", "m", " ", "y", "o", "u", "r", " ",
                            "A", "I", " ", "a", "s", "s", "i", "s", "t",
                            "a", "n", "t", ",", " ", "p", "o", "w", "e",
                            "r", "e", "d", " ", "b", "y", " ", "S", "o",
                            "n", "i", "o", "x", " ", "a", "n", "d", " ",
                            "C", "a", "r", "t", "e", "s", "i", "a", "!">>,
                        <<"I", "'", "m", " ", "a", "n", " ", "A", "I",
                            " ", "v", "o", "i", "c", "e", " ", "a", "s",
                            "s", "i", "s", "t", "a", "n", "t", " ", "h",
                            "e", "r", "e", " ", "t", "o", " ", "h", "e",
                            "l", "p", " ", "y", "o", "u", ".">>>>],
      [pattern |-> <<<<"h", "e", "l", "p">>,
                      <<"a", "s", "s", "i", "s", "t">>,
                      <<"s", "u", "p", "p", "o", "r", "t">>>>,
       responses |-> <<<<"I", "'", "m", " ", "h", "e", "r", "e", " ",
                            "t", "o", " ", "h", "e", "l", "p", "!", " ",
                            "J", "u", "s", "t", " ", "s", "p", "e", "a",
                            "k", " ", "n", "a", "t", "u", "r", "a", "l",
                            "l", "y", " ", "a", "n", "d", " ", "I", "'",
                            "l", "l", " ", "r", "e", "s", "p", "o", "n",
                            "d", ".">>,
                        <<"S", "u", "r", "e", ",", " ", "I", " ", "c",
                            "a", "n", " ", "a", "s", "s", "i", "s", "t",
                            " ", "y", "o", "u", "!", " ", "W", "h", "a",
                            "t", " ", "d", "o", " ", "y", "o", "u", " ",
                            "n", "e", "e", "d", "?">>>>],
      [pattern |-> <<<<"t", "h", "a", "n", "k", " ", "y", "o", "u">>,
                      <<"t", "h", "a", "n", "k", "s">>,
                      <<"a", "p", "p", "r", "e", "c", "i", "a", "t",
                            "e">>>>,
       responses |-> <<<<"Y", "o", "u", "'", "r", "e", " ", "w", "e",
                            "l", "c", "o", "m", "e", "!">>,
                        <<"H", "a", "p", "p", "y", " ", "t", "o", " ",
                            "h", "e", "l", "p", "!">>,
                        <<"A", "n", "y", "t", "i", "m", "e", "!">>>>],
      [pattern |-> <<<<"b", "y", "e">>,
                      <<"g", "o", "o", "d", "b", "y", "e">>,
                      <<"s", "e", "e", " ", "y", "o", "u">>,
                      <<"f", "a", "r", "e", "w", "e", "l", "l">>>>,
       responses |-> <<<<"G", "o", "o", "d", "b", "y", "e", "!", " ",
                            "H", "a", "v", "e", " ", "a", " ", "g", "r",
                            "e", "a", "t", " ", "d", "a", "y", "!">>,
                        <<"S", "e", "e", " ", "y", "o", "u", " ", "l",
                            "a", "t", "e", "r", "!">>,
                        <<"T", "a", "k", "e", " ", "c", "a", "r", "e",
                            "!">>>>],
      [pattern |-> <<<<"w", "e", "a", "t", "h", "e", "r">>,
                      <<"t", "e", "m", "p", "e", "r", "a", "t", "u",
                            "r", "e">>,
                      <<"f", "o", "r", "e", "c", "a", "s", "t">>>>,
       responses |-> <<<<"I", " ", "d", "o", "n", "'", "t", " ", "h",
                            "a", "v", "e", " ", "a", "c", "c", "e", "s",
                            "s", " ", "t", "o", " ", "w", "e", "a", "t",
                            "h", "e", "r", " ", "d", "a", "t", "a", ",",
                            " ", "b", "u", "t", " ", "I", " ", "h", "o",
                            "p", "e", " ", "i", "t", "'", "s", " ", "n",
                            "i", "c", "e", " ", "w", "h", "e", "r", "e",
                            " ", "y", "o", "u", " ", "a", "r", "e", "!">>>>],
      [pattern |-> <<<<"t", "i", "m", "e">>,
                      <<"w", "h", "a", "t", " ", "t", "i", "m", "e">>,
                      <<"c", "l", "o", "c", "k">>>>,
       responses |-> <<<<"I", " ", "d", "o", "n", "'", "t", " ", "h",
                            "a", "v", "e", " ", "a", "c", "c", "e", "s",
                            "s", " ", "t", "o", " ", "r", "e", "a", "l",
                            "-", "t", "i", "m", "e", " ", "i", "n", "f",
                            "o", "r", "m", "a", "t", "i", "o", "n", ",",
                            " ", "b", "u", "t", " ", "y", "o", "u", " ",
                            "c", "a", "n", " ", "c", "h", "e", "c", "k",
                            " ", "y", "o", "u", "r", " ", "d", "e", "v",
                            "i", "c", "e", "!">>>>],
      [pattern |-> None,
       responses |-> <<<<"T", "h", "a", "t", "'", "s", " ", "i", "n",
                            "t", "e", "r", "e", "s", "t", "i", "n", "g",
                            "!", " ", "T", "e", "l", "l", " ", "m", "e",
                            " ", "m", "o", "r", "e", ".">>,
                        <<"I", " ", "u", "n", "d", "e", "r", "s", "t",
                            "a", "n", "d", ".", " ", "W", "h", "a", "t",
                            " ", "e", "l", "s", "e", " ", "w", "o", "u",
                            "l", "d", " ", "y", "o", "u", " ", "l", "i",
                            "k", "e", " ", "t", "o", " ", "k", "n", "o",
                            "w", "?">>,
                        <<"G", "o", "t", " ", "i", "t", "!", " ", "A",
                            "n", "y", "t", "h", "i", "n", "g", " ", "e",
                            "l", "s", "e", " ", "o", "n", " ", "y", "o",
                            "u", "r", " ", "m", "i", "n", "d", "?">>,
                        <<"I", "n", "t", "e", "r", "e", "s", "t", "i",
                            "n", "g", " ", "p", "o", "i", "n", "t", "!",
                            " ", "C", "o", "n", "t", "i", "n", "u", "e",
                            ".">>>>]>>

\* the key of self._response_index for row k of the table: the dict is keyed
\* by the pattern, and the patterns of the table differ
Key(k) == k
DefaultKey == Key(Len(_responses))

\* lines 94-98: the first row in table order whose pattern is not None and
\* is found in text_lower, and the row of None when there is none
RECURSIVE MatchFrom(_, _)
MatchFrom(text_lower, k) ==
    IF k > Len(_responses) THEN DefaultKey
    ELSE IF _responses[k].pattern # None /\ re_search(_responses[k].pattern, text_lower)
         THEN Key(k)
         ELSE MatchFrom(text_lower, k + 1)

\* lines 107 and 119: the index of the next variant
RotateStays(idx, responses) == idx
Rotate(idx, responses) == (idx + 1) % Len(responses)

\* _get_response, lines 90-123: the response and the index dict it leaves
get_response(text, index) ==
    LET text_lower == strip(lower(text))
        k == MatchFrom(text_lower, 1)
        responses == _responses[k].responses
        idx == IF k \in DOMAIN index THEN index[k] ELSE 0
    IN  [response |-> responses[idx + 1],
         index |-> [j \in DOMAIN index \cup {k} |->
                       IF j = k THEN Rotate(idx, responses) ELSE index[j]]]

\* what the user says in this model: a greeting with a capital, a word that
\* holds "hi" without a boundary, a sentence that matches two patterns, and
\* a word of a pattern with one variant, with spaces around it
Greeting == <<"H", "e", "l", "l", "o">>
This == <<"t", "h", "i", "s">>
ThanksForTheHelp ==
    <<"t", "h", "a", "n", "k", "s", " ", "f", "o", "r", " ",
      "t", "h", "e", " ", "h", "e", "l", "p">>
Time == <<" ", "T", "i", "m", "e", " ">>
UserSayings == {Greeting, This, ThanksForTheHelp, Time}

SimpleFrame(kind, text) == [kind |-> kind, text |-> text]
SimpleOut(kind, text, i) == [kind |-> kind, src |-> i, text |-> text]

SimpleAccept(frame) ==
    /\ Len(responder.inp) < MaxSimpleFrames
    /\ UNCHANGED <<svc, bufs, env, io, ghost, pc, ctor, call, llm, tts>>

\* process_frame, lines 130-141: a TextFrame is answered with a response
\* start frame, the response text and a response end frame, and is not
\* forwarded itself
SimpleText(text) ==
    LET frame == SimpleFrame("TextFrame", text)
        i == Len(responder.inp) + 1
        r == get_response(text, responder._response_index)
    IN  /\ SimpleAccept(frame)
        /\ responder' = [responder EXCEPT
               !._response_index = r.index,
               !.inp = Append(@, frame),
               !.out = @ \o <<SimpleOut("LLMFullResponseStartFrame", <<>>, i),
                              SimpleOut("TextFrame", r.response, i),
                              SimpleOut("LLMFullResponseEndFrame", <<>>, i)>>]

\* lines 142-144: every other frame is forwarded
SimpleOther ==
    LET frame == SimpleFrame("OtherFrame", <<>>)
    IN  /\ SimpleAccept(frame)
        /\ responder' = [responder EXCEPT
               !.inp = Append(@, frame),
               !.out = Append(@, SimpleOut("OtherFrame", <<>>, Len(responder.inp) + 1))]

SimpleNext ==
    \/ \E text \in UserSayings : SimpleText(text)
    \/ SimpleOther

SimpleSpec == Init /\ [][SimpleNext]_vars

TypeOK ==
    /\ websocket \in 0..MaxConns
    /\ receive_task \in {"None", "recv", "err_push", "err_close", "done"}
    /\ is_speaking \in BOOLEAN
    /\ pc \in {"idle", "stop_sleep", "stop_run", "stop_finish", "end_close"}
    /\ Len(inp) <= MaxFrames
    /\ Len(final_tokens) <= MaxFinal

\* ------------------------------------------------------- helpers for claims
Last(s) == s[Len(s)]

\* this step is process_frame taking a frame of the given kind
Handles(kind) == Len(inp') = Len(inp) + 1 /\ Last(inp') = kind

\* the frames of kind k in a sequence q of downstream frames that come from
\* input frame i
Copies(q, k, i) == {j \in 1..Len(q) : q[j].kind = k /\ q[j].src = i}

Boundaries(q) ==
    {i \in 1..Len(q) :
        q[i] \in {"UserStartedSpeakingFrame", "UserStoppedSpeakingFrame"}}

\* the latest boundary signal in q is a start signal: the LISTENING state
Listening(q) ==
    /\ Boundaries(q) # {}
    /\ \E i \in Boundaries(q) :
          /\ q[i] = "UserStartedSpeakingFrame"
          /\ \A j \in Boundaries(q) : j <= i

Hello == <<"h", "e", "l", "l", "o">>
HowAre == <<"h", "o", "w", " ", "a", "r", "e">>

\* ---------------------------------------------------------------------- C1
\* C1: downstream, a stop signal gets at most one TranscriptionFrame; every
\* TranscriptionFrame is directly followed by one LLMRunFrame of the same stop
\* signal (it is the last frame only while the handler is about to push the
\* LLMRunFrame), no second LLMRunFrame follows, and nothing of a later frame
\* comes between the two.
C1_OneTranscriptThenRun ==
    /\ \A i \in 1..Len(inp) : Cardinality(Copies(out, "TranscriptionFrame", i)) <= 1
    /\ \A i \in 1..Len(inp) : Cardinality(Copies(out, "LLMRunFrame", i)) <= 1
    /\ \A j \in 1..Len(out) :
          out[j].kind = "TranscriptionFrame" =>
             /\ inp[out[j].src] = "UserStoppedSpeakingFrame"
             /\ IF j = Len(out) THEN pc = "stop_run"
                ELSE /\ out[j + 1].kind = "LLMRunFrame"
                     /\ out[j + 1].src = out[j].src
             /\ j + 2 <= Len(out) => out[j + 2].kind # "LLMRunFrame"
    /\ \A j \in 1..Len(out) :
          out[j].kind = "LLMRunFrame" =>
             j > 1 /\ out[j - 1].kind = "TranscriptionFrame"

\* two utterances: the first one's transcript, trigger and stop frame, then
\* the start frame of the second
C1_Witness ==
    \E j \in 1..Len(out) :
       /\ j + 3 <= Len(out)
       /\ out[j].kind = "TranscriptionFrame"
       /\ out[j + 1].kind = "LLMRunFrame"
       /\ out[j + 2].kind = "UserStoppedSpeakingFrame"
       /\ out[j + 3].kind = "UserStartedSpeakingFrame"

\* ---------------------------------------------------------------------- C2
\* C2: when the stop handler resumes after the grace sleep, the transcript is
\* clean(render(final, [])) if there are final tokens, else
\* clean(render([], non_final)) if there are non-final tokens, else there is
\* none; the frame pushed carries exactly that text.  Final token "hello"
\* gives "hello" whatever non-final tokens came before, and the lone
\* non-final token "how are" gives "how are".
C2_TranscriptChoice ==
    [][pc = "stop_sleep" /\ pc' # "stop_sleep" =>
        LET pushed == Len(out') = Len(out) + 1 /\ Last(out').kind = "TranscriptionFrame"
            expected ==
                IF final_tokens # <<>>
                THEN clean_transcription(render_tokens(final_tokens, <<>>))
                ELSE clean_transcription(render_tokens(<<>>, last_non_final_tokens))
        IN  /\ pushed => Last(out').text = expected
            /\ ~pushed => expected = <<>>
            /\ final_tokens = <<TokHello>> => pushed /\ Last(out').text = Hello
            /\ final_tokens = <<>> /\ last_non_final_tokens = <<TokHowAre>>
                  => pushed /\ Last(out').text = HowAre
    ]_vars

\* the transcript "hello" was pushed while a non-final token was buffered too
C2_Witness ==
    /\ pc = "stop_run"
    /\ Last(out).text = Hello
    /\ final_tokens = <<TokHello>>
    /\ last_non_final_tokens # <<>>

\* ---------------------------------------------------------------------- C3
\* C3: after the grace sleep a TranscriptionFrame is pushed iff a transcript
\* was produced and is non-empty after trimming, and then the LLMRunFrame
\* follows; with no token since the start signal neither is pushed; the stop
\* frame is forwarded once, after them, when the handler finishes.
C3_EmitIffNonEmpty ==
    [][(pc = "stop_sleep" /\ pc' # "stop_sleep" =>
          LET pushed == Len(out') = Len(out) + 1
                           /\ Last(out').kind = "TranscriptionFrame"
              produced == final_tokens # <<>> \/ last_non_final_tokens # <<>>
              text == IF final_tokens # <<>>
                      THEN clean_transcription(render_tokens(final_tokens, <<>>))
                      ELSE clean_transcription(render_tokens(<<>>, last_non_final_tokens))
          IN  /\ pushed <=> (produced /\ strip(text) # <<>>)
              /\ utt_tokens \in {"none", "discarded"} => ~pushed
              /\ pushed => pc' = "stop_run"
              /\ ~pushed => /\ pc' = "idle"
                            /\ out' = Append(out, Fwd("UserStoppedSpeakingFrame", Len(inp))))
       /\ (pc = "stop_run" /\ pc' # "stop_run" =>
             /\ out' = Append(out, LLMRunFrame(Len(inp)))
             /\ pc' = "stop_finish")
       /\ (pc = "stop_finish" /\ pc' # "stop_finish" =>
             /\ out' = Append(out, Fwd("UserStoppedSpeakingFrame", Len(inp)))
             /\ pc' = "idle")
       /\ (pc \in {"stop_run", "stop_finish"} /\ pc' = pc => out' = out)
    ]_vars

\* silence: a connected start, then a stop with no token; both frames are
\* forwarded and nothing else is pushed
C3_Witness ==
    /\ pc = "idle"
    /\ inp = <<"UserStartedSpeakingFrame", "UserStoppedSpeakingFrame">>
    /\ websocket # 0
    /\ utt_tokens = "none"
    /\ out = <<Fwd("UserStartedSpeakingFrame", 1), Fwd("UserStoppedSpeakingFrame", 2)>>

\* ---------------------------------------------------------------------- C4
\* C4: a step puts an audio message on the wire only if, before it, the
\* handle is set, the speaking flag is set, the latest boundary signal is a
\* start signal and no stop handler is in progress; the message goes to the
\* connection of the handle, which is open.
C4_AudioOnlyWhileSpeaking ==
    [][Len(wire') > Len(wire) /\ Last(wire').kind = "audio" =>
          /\ websocket # 0
          /\ is_speaking
          /\ Listening(inp)
          /\ pc = "idle"
          /\ Last(wire').conn = websocket
          /\ websocket \in open
    ]_vars

C4_Witness ==
    /\ wire # <<>>
    /\ Last(wire).kind = "audio"
    /\ Last(inp) = "AudioRawFrame"
    /\ last_send = "ok"

\* ---------------------------------------------------------------------- C5
\* C5: every AudioRawFrame taken by process_frame is downstream exactly once,
\* whether its send was skipped, succeeded or failed.
C5_AudioForwardedOnce ==
    \A i \in 1..Len(inp) :
       inp[i] = "AudioRawFrame" => Cardinality(Copies(out, "AudioRawFrame", i)) = 1

\* the send failed on a closed connection and the frame is downstream
C5_Witness ==
    /\ inp # <<>>
    /\ Last(inp) = "AudioRawFrame"
    /\ last_send = "closed"
    /\ Last(out) = Fwd("AudioRawFrame", Len(inp))

\* ---------------------------------------------------------------------- C6
\* C6: handling a UserStartedSpeakingFrame leaves both token buffers empty
\* and the speaker and language trackers unset, also when the session was
\* already speaking with tokens buffered.
C6_StartClears ==
    [][Handles("UserStartedSpeakingFrame") =>
          /\ final_tokens' = <<>>
          /\ last_non_final_tokens' = <<>>
          /\ current_speaker' = None
          /\ current_language' = None
    ]_vars

\* the start signal arrived during an utterance that had tokens buffered
C6_Witness ==
    /\ utt_tokens = "discarded"
    /\ Last(inp) = "UserStartedSpeakingFrame"
    /\ is_speaking
    /\ final_tokens = <<>>
    /\ last_non_final_tokens = <<>>

\* ---------------------------------------------------------------------- C7
\* C7: a UserStartedSpeakingFrame handled with no handle calls connect once
\* and forwards the start frame in the same handler run, after the reconnect;
\* when the reconnect fails the handler still finishes with the frame
\* forwarded, the speaking flag set, the handle null and no receive task; an
\* audio frame handled with a null handle sends nothing and is forwarded;
\* and only a start signal or StartFrame sets the handle again.
C7_ReconnectBeforeAudio ==
    [][/\ (Handles("UserStartedSpeakingFrame") /\ websocket = 0 =>
             /\ attempts' = attempts + 1
             /\ pc' = "idle"
             /\ out' = Append(out, Fwd("UserStartedSpeakingFrame", Len(inp')))
             /\ is_speaking'
             /\ websocket' = 0 =>
                   /\ receive_task' = "None"
                   /\ wire' = wire
             /\ websocket' # 0 =>
                   /\ wire' = Append(wire, Msg(websocket', "config"))
                   /\ receive_task' = "recv")
       /\ (Handles("AudioRawFrame") /\ websocket = 0 =>
             /\ wire' = wire
             /\ websocket' = 0
             /\ pc' = "idle"
             /\ out' = Append(out, Fwd("AudioRawFrame", Len(inp'))))
       /\ (websocket = 0 /\ websocket' # 0 =>
             \/ Handles("UserStartedSpeakingFrame")
             \/ Handles("StartFrame"))
    ]_vars

\* the reconnect of the start signal failed and the audio frame after it was
\* forwarded without a send
C7_Witness ==
    /\ inp = <<"UserStartedSpeakingFrame", "AudioRawFrame">>
    /\ attempts = 1
    /\ websocket = 0
    /\ is_speaking
    /\ last_send = "skipped"
    /\ wire = <<>>
    /\ out = <<Fwd("UserStartedSpeakingFrame", 1), Fwd("AudioRawFrame", 2)>>

\* ---------------------------------------------------------------------- C8
\* C8: an audio send that fails with ConnectionClosed clears the handle; a
\* UserStartedSpeakingFrame handled with a null handle calls connect, and
\* when connect and the handshake succeed the handle is a new open
\* connection whose latest message is the handshake and whose receive loop
\* is waiting for messages.
C8_RecoverAfterSendFailure ==
    [][/\ (Handles("AudioRawFrame") /\ SendGuard(websocket, is_speaking)
              /\ websocket \notin open =>
             /\ websocket' = 0
             /\ last_send' = "closed")
       /\ (Handles("UserStartedSpeakingFrame") /\ websocket = 0 =>
             /\ attempts' = attempts + 1
             /\ websocket' # 0 =>
                   /\ websocket' = nConns + 1
                   /\ websocket' \in open'
                   /\ wire' = Append(wire, Msg(websocket', "config"))
                   /\ receive_task' = "recv"
                   /\ task_sock' = websocket')
    ]_vars

\* the latest audio send failed on a closed connection and the start signal
\* right after it opened the second connection
C8_Witness ==
    /\ Len(inp) >= 2
    /\ Last(inp) = "UserStartedSpeakingFrame"
    /\ inp[Len(inp) - 1] = "AudioRawFrame"
    /\ last_send = "closed"
    /\ websocket = 2
    /\ websocket \in open
    /\ receive_task = "recv"
    /\ Last(wire) = Msg(2, "config")

\* ---------------------------------------------------------------------- C9
\* C9 as stated: whatever makes an audio send fail, the handle is cleared,
\* the chunk is not sent and the handler finishes normally.
C9_EveryFailureClearsHandle ==
    [][Handles("AudioRawFrame") /\ SendGuard(websocket, is_speaking)
          /\ last_send' # "ok" =>
             /\ websocket' = 0
             /\ wire' = wire
             /\ pc' = "idle"
    ]_vars

\* C9 amended: a failed audio send never leaves process_frame as an
\* exception and the chunk is dropped and still forwarded; the handle and the
\* speaking flag are cleared when the failure is ConnectionClosed or an
\* exception whose text has "1000", "closed" or "connection", and both are
\* kept for any other exception.
C9_FailureAbsorbed ==
    [][Handles("AudioRawFrame") /\ SendGuard(websocket, is_speaking)
          /\ last_send' # "ok" =>
             /\ wire' = wire
             /\ pc' = "idle"
             /\ out' = Append(out, Fwd("AudioRawFrame", Len(inp')))
             /\ last_send' \in {"closed", "exc_conn", "exc_other"}
             /\ last_send' \in {"closed", "exc_conn"} =>
                    websocket' = 0 /\ ~is_speaking'
             /\ last_send' = "exc_other" =>
                    websocket' = websocket /\ is_speaking'
    ]_vars

\* a send failed with a connection-related exception on an open connection
C9_Witness ==
    /\ inp # <<>>
    /\ Last(inp) = "AudioRawFrame"
    /\ last_send = "exc_conn"
    /\ websocket = 0
    /\ Last(out) = Fwd("AudioRawFrame", Len(inp))

\* --------------------------------------------------------------------- C10
\* C10: when token delivery on the current connection has ended (the handle
\* is null or the receive task has finished), a UserStartedSpeakingFrame
\* handled while the remote service accepts connections leaves an open
\* connection with a receive loop waiting on it.
C10_NextStartRecovers ==
    [][/\ Handles("UserStartedSpeakingFrame")
       /\ (websocket = 0 \/ receive_task = "done")
       /\ ~(attempts' > attempts /\ websocket' = 0)
       =>
          /\ websocket' # 0
          /\ websocket' \in open'
          /\ receive_task' = "recv"
          /\ task_sock' = websocket'
    ]_vars

\* --------------------------------------------------------------------- C11
\* the receive loop leaves through its error_code branch (lines 245-257)
LoopErrorExit ==
    /\ receive_task \in {"err_push", "err_close"}
    /\ receive_task' = "done"
    /\ inp' = inp

\* C11: a message with an error_code is surfaced with push_error; the loop
\* then closes the connection, clears the handle and ends, and none of these
\* steps touches the frame handlers' position, the frames or the token
\* buffers; while the session is still speaking the handle is the loop's
\* connection and it is closed.  The stop signal handled afterwards with a
\* null handle sends nothing, enters the grace sleep with the buffers as they
\* were, and a buffered final token "hello" is emitted as the transcript.
C11_RemoteErrorAbsorbed ==
    [][/\ (receive_task = "recv" /\ receive_task' = "err_push" =>
             /\ errors' = errors + 1
             /\ UNCHANGED <<websocket, is_speaking, bufs, io, pc>>)
       /\ (receive_task \in {"err_push", "err_close"}
             /\ receive_task' # receive_task /\ inp' = inp =>
                /\ receive_task' \in {"err_close", "done"}
                /\ UNCHANGED <<bufs, io, pc, errors>>)
       /\ (LoopErrorExit =>
             /\ websocket' = 0
             /\ websocket # 0 => websocket \notin open'
             /\ is_speaking => websocket # 0 /\ websocket = task_sock)
       /\ (Handles("UserStoppedSpeakingFrame") /\ websocket = 0 =>
             /\ pc' = "stop_sleep"
             /\ wire' = wire
             /\ UNCHANGED bufs)
       /\ (pc = "stop_sleep" /\ pc' # "stop_sleep" /\ final_tokens = <<TokHello>> =>
             out' = Append(out, TranscriptionFrame(Hello, Len(inp))))
    ]_vars

\* the error came during the utterance: no end-of-audio was sent, and the
\* stop signal still emitted the transcript of the token merged before
C11_Witness ==
    /\ inp = <<"UserStartedSpeakingFrame", "UserStoppedSpeakingFrame">>
    /\ errors = 1
    /\ websocket = 0
    /\ receive_task = "done"
    /\ wire = <<Msg(1, "config")>>
    /\ pc = "stop_run"
    /\ out = <<Fwd("UserStartedSpeakingFrame", 1), TranscriptionFrame(Hello, 2)>>

\* --------------------------------------------------------------------- C12
\* C12: while the receive loop waits on an open connection with the handle
\* set, no inbound message other than one with an error_code makes it leave:
\* after a malformed or undecodable message the loop is waiting again, the
\* connection is still open and the token buffers are as they were.
C12_MalformedSkipped ==
    [][receive_task = "recv" /\ task_sock \in open /\ websocket # 0 /\ inp' = inp =>
          \/ receive_task' = "err_push"
          \/ /\ receive_task' = "recv"
             /\ task_sock' = task_sock
             /\ (bufs' # bufs =>
                   \E batch \in Batches :
                      final_tokens' = MergeFinal(final_tokens, batch))
    ]_vars

\* --------------------------------------------------------------------- C13
\* C13: when the connection the receive loop waits on has been closed by the
\* remote side, the loop's next step ends it with the handle cleared, without
\* an error pushed and without touching the frame handlers; an audio frame
\* handled with a null handle makes no send attempt and no connection
\* attempt and is forwarded; and the handle is only set again by a connect.
C13_ClosureClearsHandle ==
    [][/\ (receive_task = "recv" /\ task_sock \notin open
             /\ receive_task' # "recv" /\ inp' = inp =>
                /\ receive_task' = "done"
                /\ websocket' = 0
                /\ UNCHANGED <<io, pc, errors, bufs, is_speaking>>)
       /\ (Handles("AudioRawFrame") /\ websocket = 0 =>
             /\ last_send' = "skipped"
             /\ wire' = wire
             /\ attempts' = attempts
             /\ websocket' = 0
             /\ out' = Append(out, Fwd("AudioRawFrame", Len(inp'))))
       /\ (websocket = 0 /\ websocket' # 0 => attempts' = attempts + 1)
    ]_vars

\* the server closed the connection during the utterance, the loop ended,
\* and the audio frame after that was dropped without a send
C13_Witness ==
    /\ inp = <<"UserStartedSpeakingFrame", "AudioRawFrame">>
    /\ last_send = "skipped"
    /\ is_speaking
    /\ websocket = 0
    /\ receive_task = "done"
    /\ errors = 0
    /\ attempts = 1
    /\ open = {}
    /\ wire = <<Msg(1, "config")>>
    /\ Last(out) = Fwd("AudioRawFrame", 2)

\* --------------------------------------------------------------------- C14
\* C14: connect is called only while a UserStartedSpeakingFrame or a
\* StartFrame is handled, and only those two handlers give the service a new
\* connection; an audio frame handled when the handle is null or its
\* connection is closed transmits nothing and leaves the handle null or as
\* it was.
C14_NoMidUtteranceReconnect ==
    [][/\ (attempts' # attempts =>
             Handles("UserStartedSpeakingFrame") \/ Handles("StartFrame"))
       /\ (websocket' # websocket /\ websocket' # 0 =>
             Handles("UserStartedSpeakingFrame") \/ Handles("StartFrame"))
       /\ (Handles("AudioRawFrame") /\ (websocket = 0 \/ websocket \notin open) =>
             /\ wire' = wire
             /\ websocket' \in {0, websocket}
             /\ nConns' = nConns
             /\ audio_frame_count' = audio_frame_count)
    ]_vars

\* the connection was lost during the utterance: the first audio send found
\* it closed, the second audio frame was dropped, and connect was called
\* only once, by the start signal
C14_Witness ==
    /\ inp = <<"UserStartedSpeakingFrame", "AudioRawFrame", "AudioRawFrame">>
    /\ last_send = "skipped"
    /\ websocket = 0
    /\ ~is_speaking
    /\ receive_task = "recv"
    /\ attempts = 1
    /\ nConns = 1
    /\ open = {}
    /\ wire = <<Msg(1, "config")>>

\* --------------------------------------------------------------------- C15
\* C15 as stated: the speaking flag is cleared only by handling a
\* UserStoppedSpeakingFrame.
C15_OnlyStopLeavesListening ==
    [][is_speaking /\ ~is_speaking' => Handles("UserStoppedSpeakingFrame")]_vars

\* C15, amended: the speaking flag is set only by handling a start signal,
\* which sets it whatever the reconnect does; it is cleared by handling a
\* stop signal, by an audio send that fails with ConnectionClosed or a
\* connection-related exception, and by the receive loop leaving on an
\* error_code message, and by nothing else: other send failures, a server
\* closure seen by the receive loop and the loop's catch-all exit keep it.
C15_SpeakingTransitions ==
    [][/\ (is_speaking /\ ~is_speaking' =>
             \/ Handles("UserStoppedSpeakingFrame")
             \/ Handles("AudioRawFrame") /\ last_send' \in {"closed", "exc_conn"}
             \/ LoopErrorExit)
       /\ (~is_speaking /\ is_speaking' => Handles("UserStartedSpeakingFrame"))
       /\ (Handles("UserStartedSpeakingFrame") => is_speaking' /\ pc' = "idle")
       /\ (Handles("UserStoppedSpeakingFrame") => ~is_speaking' /\ pc' = "stop_sleep")
       /\ (Handles("AudioRawFrame") =>
             /\ last_send' \in {"closed", "exc_conn"} => ~is_speaking'
             /\ last_send' \in {"ok", "exc_other", "skipped"} =>
                   is_speaking' = is_speaking)
       /\ (LoopErrorExit => ~is_speaking')
       /\ (receive_task = "recv" /\ receive_task' = "done" /\ inp' = inp =>
             is_speaking' = is_speaking)
    ]_vars

\* a start signal is the latest boundary signal, and a connection-related
\* send failure has cleared the speaking flag
C15_Witness ==
    /\ Listening(inp)
    /\ Last(inp) = "AudioRawFrame"
    /\ last_send = "exc_conn"
    /\ ~is_speaking
    /\ pc = "idle"

\* --------------------------------------------------------------------- C16
\* C16: whenever a UserStoppedSpeakingFrame has been taken and its handler is
\* in the grace sleep, the handler eventually finishes: it is idle again,
\* the stop frame is the last frame pushed downstream, both token buffers
\* are empty and the session is not speaking.
C16_DrainCompletes ==
    pc = "stop_sleep" ~>
        /\ pc = "idle"
        /\ inp # <<>> /\ out # <<>>
        /\ Last(inp) = "UserStoppedSpeakingFrame"
        /\ Last(out) = Fwd("UserStoppedSpeakingFrame", Len(inp))
        /\ final_tokens = <<>>
        /\ last_non_final_tokens = <<>>
        /\ ~is_speaking

\* the handle was set but the end-of-audio send failed, no token came, and
\* the stop handler has finished with the stop frame forwarded
C16_Witness ==
    /\ inp = <<"UserStartedSpeakingFrame", "UserStoppedSpeakingFrame">>
    /\ pc = "idle"
    /\ websocket = 1
    /\ wire = <<Msg(1, "config")>>
    /\ out = <<Fwd("UserStartedSpeakingFrame", 1), Fwd("UserStoppedSpeakingFrame", 2)>>
    /\ final_tokens = <<>>
    /\ last_non_final_tokens = <<>>
    /\ ~is_speaking

\* --------------------------------------------------------------------- C17
\* the final tokens with text of a batch, in the order of the batch
FinalPart(batch) == SelectSeq(batch, LAMBDA t : t.is_final /\ t.text # <<>>)

\* C17: while the stop handler is in its grace sleep the final buffer is
\* only extended, by the final tokens of the batches the receive loop
\* merges; and when a final batch was merged during the sleep, the buffer is
\* not empty when the sleep ends and the frame pushed then carries the text
\* rendered from the whole final buffer, that batch included.
C17_GraceFinalsIncluded ==
    [][/\ (pc = "stop_sleep" /\ pc' = "stop_sleep" /\ final_tokens' # final_tokens =>
             \E batch \in Batches :
                /\ FinalPart(batch) # <<>>
                /\ final_tokens' = final_tokens \o FinalPart(batch)
                /\ utt_tokens' = "grace")
       /\ (pc = "stop_sleep" /\ pc' = "stop_sleep" /\ utt_tokens' = "grace" =>
             final_tokens' # <<>>)
       /\ (pc = "stop_sleep" /\ pc' # "stop_sleep" /\ utt_tokens = "grace" =>
             /\ final_tokens # <<>>
             /\ out' = Append(out, TranscriptionFrame(
                          clean_transcription(render_tokens(final_tokens, <<>>)),
                          Len(inp))))
    ]_vars

\* the end-of-audio sentinel was sent, the only final token came during the
\* grace sleep, and the transcript pushed is its text
C17_Witness ==
    /\ inp = <<"UserStartedSpeakingFrame", "UserStoppedSpeakingFrame">>
    /\ wire = <<Msg(1, "config"), Msg(1, "eoa")>>
    /\ utt_tokens = "grace"
    /\ pc = "stop_run"
    /\ final_tokens = <<TokHello>>
    /\ out = <<Fwd("UserStartedSpeakingFrame", 1), TranscriptionFrame(Hello, 2)>>

\* --------------------------------------------------------------------- C18
\* the non-final tokens with text of a batch, in the order of the batch
NonFinalPart(batch) == SelectSeq(batch, LAMBDA t : ~t.is_final /\ t.text # <<>>)

\* a step of the receive loop that changes a token buffer
MergeStep == inp' = inp /\ pc' = pc /\ bufs' # bufs

\* C18: a merge leaves in the non-final buffer exactly the non-final tokens
\* of the batch merged, whatever the buffer held: after "hel" then "how are"
\* it holds "how are" alone, and after a batch with only a final token it is
\* empty.
C18_NonFinalReplaced ==
    [][MergeStep =>
         /\ \E batch \in Batches :
               /\ last_non_final_tokens' = NonFinalPart(batch)
               /\ final_tokens' = final_tokens \o FinalPart(batch)
         /\ Len(last_non_final_tokens') <= 1
         /\ last_non_final_tokens = <<TokHel>> /\ last_non_final_tokens' # <<TokHel>> =>
               last_non_final_tokens' \in {<<TokHowAre>>, <<TokBlank>>, <<>>}
         /\ final_tokens' # final_tokens => last_non_final_tokens' = <<>>
    ]_vars

\* the non-final token "hel" was merged, then the final token "hello", then
\* a batch whose only token with text is a non-final blank
C18_Witness ==
    /\ is_speaking
    /\ utt_tokens = "some"
    /\ final_tokens = <<TokHello>>
    /\ last_non_final_tokens = <<TokBlank>>

\* --------------------------------------------------------------------- C19
IsPrefix(s, t) == Len(s) <= Len(t) /\ SubSeq(t, 1, Len(s)) = s

\* from the start signal to the end of the grace sleep, when the transcript
\* is rendered
InUtterance == (pc = "idle" /\ Listening(inp)) \/ pc = "stop_sleep"

Emissions(q) ==
    {j \in 1..Len(q) : q[j].kind \in {"TranscriptionFrame", "LLMRunFrame"}}

\* C20: no step of the receive loop pushes a frame downstream; a
\* TranscriptionFrame or LLMRunFrame is pushed only by a step of the stop
\* handler after its grace sleep, and it carries the number of the
\* UserStoppedSpeakingFrame being handled.
C20_NoEmissionFromBatches ==
    [][/\ (inp' = inp /\ pc' = pc => out' = out)
       /\ (Emissions(out') # Emissions(out) =>
             /\ pc \in {"stop_sleep", "stop_run"}
             /\ pc' \in {"stop_run", "stop_finish"}
             /\ inp' = inp
             /\ Last(inp) = "UserStoppedSpeakingFrame"
             /\ Len(out') = Len(out) + 1
             /\ out'[Len(out')].src = Len(inp))
    ]_vars

\* final and non-final batches were merged during the utterance and nothing
\* but the start frame has gone downstream
C20_Witness ==
    /\ inp = <<"UserStartedSpeakingFrame">>
    /\ is_speaking
    /\ final_tokens = <<TokHello>>
    /\ last_non_final_tokens = <<TokHowAre>>
    /\ out = <<Fwd("UserStartedSpeakingFrame", 1)>>

\* --------------------------------------------------------------------- C21
\* the messages sent on connection c, in the order they were sent
SentOn(c) == SelectSeq(wire, LAMBDA m : m.conn = c)

\* C21: on every connection the handshake was sent at most once, whatever
\* was sent on a connection starts with its handshake, and the connection
\* the handle refers to has had its handshake sent: audio and end-of-audio
\* messages only ever follow the handshake of their connection.
C21_HandshakeFirst ==
    \A c \in 1..nConns :
        /\ Cardinality({j \in 1..Len(SentOn(c)) : SentOn(c)[j].kind = "config"}) <= 1
        /\ SentOn(c) # <<>> => SentOn(c)[1].kind = "config"
        /\ c = websocket => SentOn(c) # <<>>

\* audio went out on the first connection after its handshake, and a second
\* connection got its own handshake
C21_Witness ==
    /\ nConns = 2
    /\ websocket = 2
    /\ wire = <<Msg(1, "config"), Msg(1, "audio"), Msg(2, "config")>>

\* --------------------------------------------------------------------- C22
\* the end-of-audio messages in a sequence of sent messages
EndOfAudio(q) == {j \in 1..Len(q) : q[j].kind = "eoa"}

\* C22: handling a UserStoppedSpeakingFrame sends at most one message, an
\* end-of-audio on the connection of the handle, and none when the handle
\* is null or its connection is closed; whether the send worked or not the
\* handler goes into the grace sleep with handle and buffers as they were,
\* and after the sleep a buffered final token "hello" is emitted; no other
\* step sends an end-of-audio.
C22_EndOfAudioBestEffort ==
    [][/\ (Handles("UserStoppedSpeakingFrame") =>
             /\ pc' = "stop_sleep"
             /\ websocket' = websocket
             /\ UNCHANGED <<bufs, out, errors>>
             /\ \/ wire' = wire
                \/ /\ websocket # 0 /\ websocket \in open
                   /\ wire' = Append(wire, Msg(websocket, "eoa"))
             /\ (websocket = 0 \/ websocket \notin open) => wire' = wire)
       /\ (EndOfAudio(wire') # EndOfAudio(wire) =>
             Handles("UserStoppedSpeakingFrame"))
       /\ (pc = "stop_sleep" /\ pc' # "stop_sleep" /\ final_tokens = <<TokHello>> =>
             /\ pc' = "stop_run"
             /\ Len(out') = Len(out) + 1
             /\ out'[Len(out')] = TranscriptionFrame(Hello, Len(inp)))
    ]_vars

\* the handle was set, the end-of-audio send failed, and the transcript of
\* the buffered token was still emitted
C22_Witness ==
    /\ inp = <<"UserStartedSpeakingFrame", "UserStoppedSpeakingFrame">>
    /\ websocket = 1
    /\ 1 \in open
    /\ wire = <<Msg(1, "config")>>
    /\ pc = "stop_finish"
    /\ out = <<Fwd("UserStartedSpeakingFrame", 1), TranscriptionFrame(Hello, 2),
               LLMRunFrame(2)>>

\* --------------------------------------------------------------------- C23
\* C23: at any time at most one connection of the service is open, and a
\* receive loop that is running reads from the connection of the handle.
C23_OneConnection ==
    /\ Cardinality(open) <= 1
    /\ receive_task \in {"recv", "err_push", "err_close"} /\ websocket # 0 =>
          task_sock = websocket

\* --------------------------------------------------------------------- C24
\* the receive task exists and has not finished
LoopRunning == receive_task \in {"recv", "err_push", "err_close"}

\* C24: handling an EndFrame or CancelFrame first ends the receive task,
\* with the connection and the handle still as they were; only then, in a
\* later step and with no receive loop running, is the connection closed
\* and the handle cleared; and the receive loop takes no step in between.
C24_CancelBeforeClose ==
    [][/\ (Handles("EndFrame") \/ Handles("CancelFrame") =>
             /\ ~LoopRunning'
             /\ pc' = "end_close"
             /\ open' = open
             /\ websocket' = websocket)
       /\ (pc = "end_close" /\ pc' # "end_close" =>
             /\ ~LoopRunning
             /\ receive_task' = receive_task
             /\ websocket' = 0
             /\ websocket # 0 => websocket \notin open'
             /\ pc' = "idle"
             /\ out' = Append(out, Fwd(Last(inp), Len(inp))))
       /\ (pc = "end_close" => ~LoopRunning')
    ]_vars

\* inside stop(): the receive task that was waiting has finished and the
\* connection is still open
C24_Witness ==
    /\ inp = <<"UserStartedSpeakingFrame", "CancelFrame">>
    /\ pc = "end_close"
    /\ receive_task = "done"
    /\ websocket = 1
    /\ open = {1}

\* --------------------------------------------------------------------- C25
\* C25: stop() always finishes with a null handle, no receive loop running
\* and the frame forwarded, also when the connection of the handle was
\* already closed; and when it is called with a null handle and no loop
\* running, neither of its steps changes the connection state, the receive
\* task, the buffers or what was sent.
C25_StopIdempotent ==
    [][/\ (pc = "end_close" /\ pc' # "end_close" =>
             /\ pc' = "idle"
             /\ websocket' = 0
             /\ ~LoopRunning'
             /\ open' \subseteq open
             /\ out' = Append(out, Fwd(Last(inp), Len(inp))))
       /\ ((Handles("EndFrame") \/ Handles("CancelFrame"))
             /\ websocket = 0 /\ ~LoopRunning =>
                UNCHANGED <<websocket, receive_task, is_speaking, bufs, open,
                            wire, errors, out>>)
       /\ (pc = "end_close" /\ pc' # "end_close" /\ websocket = 0 =>
             UNCHANGED <<svc, bufs, open, wire, errors>>)
    ]_vars

\* stop() ran twice: after a cancel that closed the connection, an EndFrame
\* found the handle null and the receive task finished
C25_Witness ==
    /\ inp = <<"StartFrame", "CancelFrame", "EndFrame">>
    /\ pc = "idle"
    /\ websocket = 0
    /\ receive_task = "done"
    /\ open = {}
    /\ wire = <<Msg(1, "config")>>
    /\ out = <<Fwd("StartFrame", 1), Fwd("CancelFrame", 2), Fwd("EndFrame", 3)>>

\* --------------------------------------------------------------------- C26
\* C26: when neither the api_key argument nor SONIOX_API_KEY gives a
\* non-empty key, the constructor raises with nothing set but the (missing)
\* key itself; a construction that raised changes nothing afterwards; and a
\* connection is attempted, a frame taken or a method called only on a
\* service whose construction succeeded.
C26_MissingKeyFailsFirst ==
    [][/\ (ctor.at = "new" /\ ctor'.at # "new" =>
             /\ ctor'.at = "raised" <=>
                   /\ ctor.args.api_key \in {None, <<>>}
                   /\ ctor.args.env_key \in {None, <<>>}
             /\ ctor'.at = "raised" => DOMAIN ctor'.fields = {"_api_key"}
             /\ ctor'.at = "ready" => HasKey(ctor'.fields._api_key)
             /\ UNCHANGED <<svc, bufs, env, io, call>>)
       /\ (ctor.at = "raised" => UNCHANGED vars)
       /\ (attempts' # attempts \/ inp' # inp \/ call' # call => ctor.at = "ready")
    ]_vars

\* the argument was the empty string and the variable was unset: the
\* constructor has raised and nothing has been attempted
C26_Witness ==
    /\ ctor.at = "raised"
    /\ ctor.args.api_key = <<>>
    /\ ctor.args.env_key = None
    /\ attempts = 0
    /\ websocket = 0

\* --------------------------------------------------------------------- C27
\* the config has the field
Has(c, field) == field \in DOMAIN c

\* C27 as stated: "auto" gives audio_format "auto" alone, "pcm_s16le" gives
\* it with sample_rate and num_channels, and every other configured format
\* is passed through unchanged.
C27_ThreeShapes ==
    call.fn = "_get_config" =>
        LET c == call.result
            fmt == ctor.fields._audio_format
        IN  \/ /\ fmt = "auto" /\ c.audio_format = "auto"
               /\ ~Has(c, "sample_rate") /\ ~Has(c, "num_channels")
            \/ /\ fmt = "pcm_s16le" /\ c.audio_format = "pcm_s16le"
               /\ Has(c, "sample_rate") /\ Has(c, "num_channels")
            \/ /\ fmt \notin {"auto", "pcm_s16le"} /\ c.audio_format = fmt

\* C27, amended: "auto" gives audio_format "auto" with no sample_rate and
\* no num_channels; "pcm_s16le" and its alias "s16le" both give
\* "pcm_s16le" with the configured sample_rate and num_channels, whatever
\* their values; every other format is passed through unchanged, with
\* sample_rate present exactly when it is not zero and num_channels present
\* exactly when it is not zero.
C27_ShapesWithAlias ==
    call.fn = "_get_config" =>
        LET c == call.result
            f == ctor.fields
            fmt == f._audio_format
        IN  /\ Has(c, "audio_format")
            /\ fmt = "auto" =>
                  /\ c.audio_format = "auto"
                  /\ ~Has(c, "sample_rate") /\ ~Has(c, "num_channels")
            /\ fmt \in {"pcm_s16le", "s16le"} =>
                  /\ c.audio_format = "pcm_s16le"
                  /\ Has(c, "sample_rate") /\ c.sample_rate = f._sample_rate
                  /\ Has(c, "num_channels") /\ c.num_channels = f._channels
            /\ fmt \notin {"auto", "pcm_s16le", "s16le"} =>
                  /\ c.audio_format = fmt
                  /\ Has(c, "sample_rate") <=> f._sample_rate # 0
                  /\ Has(c, "num_channels") <=> f._channels # 0
                  /\ Has(c, "sample_rate") => c.sample_rate = f._sample_rate
                  /\ Has(c, "num_channels") => c.num_channels = f._channels

\* the service was configured with the alias and the handshake names the
\* full format, with a zero sample rate still in it
C27_Witness ==
    /\ call.fn = "_get_config"
    /\ ctor.fields._audio_format = "s16le"
    /\ ctor.fields._sample_rate = 0
    /\ call.result.audio_format = "pcm_s16le"
    /\ call.result.sample_rate = 0
    /\ call.result.num_channels = 2

\* --------------------------------------------------------------------- C28
\* this step is the return of a call of _render_tokens
Returns == call.at = "loop" /\ call'.at = "returned"

\* C28: every call of _render_tokens returns a text that starts with the
\* text rendered from its final tokens alone; no step of the call changes
\* the token buffers, the speaker and language fields or any other field of
\* the service, nor the token lists it was given; and a call repeated on
\* the same token lists returns the same text.
C28_FinalsOnlyIsPrefix ==
    [][/\ UNCHANGED <<svc, bufs>>
       /\ call'.final = call.final
       /\ call'.non_final = call.non_final
       /\ Returns =>
              LET result == Last(call'.returns)
              IN  /\ result = render_tokens(call.final, call.non_final)
                  /\ IsPrefix(render_tokens(call.final, <<>>), result)
                  /\ \A k \in 1..Len(call'.returns) : call'.returns[k] = result]_vars

\* a second call has returned, on final tokens and non-final tokens that
\* both render to text with a speaker marker and a language tag
C28_Witness ==
    /\ call.at = "returned"
    /\ Len(call.returns) = MaxCalls
    /\ call.final # <<>>
    /\ call.non_final # <<>>
    /\ Len(render_tokens(call.final, <<>>)) > Len(Hi)
    /\ Len(call.returns[1]) > Len(render_tokens(call.final, <<>>))
    /\ \E k \in DOMAIN call.non_final :
          call.non_final[k].speaker # None /\ call.non_final[k].language # None

\* --------------------------------------------------------------------- C29
\* this step is one iteration of the loop of _render_tokens
Iterates == call.at = "loop" /\ call'.at = "loop" /\ call'.i = call.i + 1

\* the token of the iteration, and the text the iteration adds
Token == LoopTokens(call.final, call.non_final)[call.i]
Added == SubSeq(call'.text_parts, Len(call.text_parts) + 1, Len(call'.text_parts))

Contains(s, lit) == \E i \in 1..Len(s) : HasLit(s, i, lit)
Break == <<"\n", "\n">>
Marker(id) == SpeakerLit \o <<" ">> \o id \o <<":">>
Tag(lang) == <<"\n", "[">> \o lang \o <<"]", " ">>
TranslationTag(lang) == <<"\n">> \o TranslationLit \o <<" ", "[">> \o lang \o <<"]", " ">>

\* C29 as stated: a token with text whose speaker differs from the running
\* speaker, the first such token included, adds a paragraph break and then
\* the "Speaker {id}:" marker before its text, and the running language is
\* reset.
C29_BreakBeforeEveryMarker ==
    [][Iterates /\ Token.text # <<>> /\ Token.speaker # None
           /\ Token.speaker # call.current_speaker =>
          /\ IsPrefix(Break \o Marker(Token.speaker), Added)
          /\ call'.current_speaker = Token.speaker
          /\ call'.current_language = Token.language]_vars

\* C29, amended: a token with text that carries a speaker other than the
\* running speaker adds the "Speaker {id}:" marker before its text, after a
\* paragraph break only if a running speaker was set before; the speaker
\* becomes the running one and the running language is forgotten, so the
\* token's own language, if it has one, is tagged even when it is the
\* language that was running. A token without text or without a speaker, or
\* with the running speaker, adds no marker and no paragraph break and
\* keeps the running speaker.
C29_SpeakerMarker ==
    [][Iterates =>
          IF Token.text # <<>> /\ Token.speaker # None
                 /\ Token.speaker # call.current_speaker
          THEN LET head == (IF call.current_speaker = None THEN <<>> ELSE Break)
                               \o Marker(Token.speaker)
               IN  /\ IsPrefix(head, Added)
                   /\ call'.current_speaker = Token.speaker
                   /\ call'.current_language = Token.language
                   /\ Token.language = None => Added = head \o Token.text
                   /\ Token.language # None =>
                          \/ IsPrefix(head \o Tag(Token.language), Added)
                          \/ IsPrefix(head \o TranslationTag(Token.language), Added)
          ELSE /\ call'.current_speaker = call.current_speaker
               /\ ~Contains(Added, SpeakerLit)
               /\ ~Contains(Added, Break)]_vars

\* speaker 1 said "hi" in English and speaker 2 goes on in English: the
\* first marker has no paragraph break, the second has one, and the
\* language is tagged again
C29_Witness ==
    /\ call.at = "loop"
    /\ call.i = 3
    /\ call.current_speaker = Two
    /\ call.text_parts = Marker(One) \o Tag(En) \o Hi
                            \o Break \o Marker(Two) \o Tag(En) \o lstrip(There)

\* --------------------------------------------------------------------- C30
IsSuffix(s, t) == Len(s) <= Len(t) /\ SubSeq(t, Len(t) - Len(s) + 1, Len(t)) = s

\* the running language the token's language is compared with: unset if
\* the token has just changed the speaker
Running ==
    IF Token.speaker # None /\ Token.speaker # call.current_speaker
    THEN None ELSE call.current_language

\* the tag of the token's language, with the translation prefix exactly
\* for a translation, and then the trimmed text
TaggedText ==
    (IF Token.translation THEN TranslationTag(Token.language) ELSE Tag(Token.language))
        \o lstrip(Token.text)

\* C30 as stated: a token with text whose language differs from the running
\* language adds a line break and the bracketed language tag before its
\* text, with the translation prefix exactly for a translation, whose text
\* is then trimmed on the left; a token whose language is the running one
\* adds no tag.
C30_TagOnEveryDifference ==
    [][Iterates /\ Token.text # <<>> =>
          IF Token.language # Running
          THEN /\ \/ IsSuffix(Tag(Token.language) \o Token.text, Added)
                  \/ IsSuffix(Tag(Token.language) \o lstrip(Token.text), Added)
                  \/ IsSuffix(TranslationTag(Token.language) \o lstrip(Token.text), Added)
               /\ Contains(Added, TranslationLit) <=> Token.translation
          ELSE ~Contains(Added, <<"[">>)]_vars

\* C30, amended: a token with text that carries a language other than the
\* running language (which is unset if this token changed the speaker) adds
\* a line break and the bracketed language tag before its text, with the
\* translation prefix exactly for a translation; the text after a tag is
\* trimmed on the left, for a translation or not, and the language becomes
\* the running one. A token with the running language or with no language
\* adds its text untrimmed and no tag, and a token without text adds
\* nothing; both keep the running language.
C30_LanguageTag ==
    [][Iterates =>
          IF Token.text = <<>>
          THEN /\ Added = <<>>
               /\ call'.current_language = call.current_language
          ELSE IF Token.language # None /\ Token.language # Running
          THEN /\ IsSuffix(TaggedText, Added)
               /\ Contains(Added, TranslationLit) <=> Token.translation
               /\ call'.current_language = Token.language
          ELSE /\ IsSuffix(Token.text, Added)
               /\ ~Contains(Added, <<"[">>)
               /\ call'.current_language = Running]_vars

\* speaker 1 said "hi" in English, the Spanish translation " there" follows
\* with its prefix and trimmed, and a token without a language adds no tag
C30_Witness ==
    /\ call.at = "loop"
    /\ call.i = 4
    /\ call.current_language = Es
    /\ call.text_parts = Marker(One) \o Tag(En) \o Hi
                            \o TranslationTag(Es) \o lstrip(There) \o Hi

\* --------------------------------------------------------------------- C31
\* the first position from i on where lit occurs in s, 0 when there is none
RECURSIVE FindFrom(_, _, _)
FindFrom(s, i, lit) ==
    IF i + Len(lit) - 1 > Len(s) THEN 0
    ELSE IF HasLit(s, i, lit) THEN i
    ELSE FindFrom(s, i + 1, lit)

\* the words of the tokens from the k-th on occur in s from position i on,
\* one after the other; the end-of-stream token is no word
RECURSIVE InOrder(_, _, _, _)
InOrder(s, i, toks, k) ==
    IF k > Len(toks) THEN TRUE
    ELSE LET word == strip(toks[k].text)
         IN  IF word = <<>> \/ word = EndLit THEN InOrder(s, i, toks, k + 1)
             ELSE LET p == FindFrom(s, i, word)
                  IN  p # 0 /\ InOrder(s, p + Len(word), toks, k + 1)

\* the tokens are 'hi' of speaker 1 and then 'there' of speaker 2
HiThere(toks) ==
    /\ Len(toks) = Len(<<Hi, Word>>)
    /\ toks[1].text = Hi /\ toks[1].speaker = One /\ toks[1].language = None
    /\ toks[2].text = Word /\ toks[2].speaker = Two /\ toks[2].language = None

\* C31: the cleaned text of rendered tokens, whose speakers are numbers and
\* whose languages are two-letter codes, has no speaker marker, no language
\* tag, no translation prefix and no end-of-stream marker, no whitespace
\* but single spaces between words, and the words of the tokens in their
\* order; for 'hi' of speaker 1 and 'there' of speaker 2 it is "hi there".
C31_CleanHasOnlyWords ==
    call.at = "cleaned" =>
        LET text == call.cleaned
            toks == LoopTokens(call.final, call.non_final)
        IN  /\ ~Contains(text, SpeakerLit)
            /\ \A i \in 1..Len(text) :
                  /\ MatchSpeaker(text, i) = 0
                  /\ MatchLanguage(text, i) = 0
                  /\ text[i] \notin {"[", "]", ":", "<", ">"}
            /\ ~Contains(text, TranslationLit)
            /\ ~Contains(text, EndLit)
            /\ \A i \in 1..Len(text) : text[i] \in Space => text[i] = " "
            /\ \A i \in 1..(Len(text) - 1) : ~(text[i] = " " /\ text[i + 1] = " ")
            /\ text # <<>> => text[1] # " " /\ text[Len(text)] # " "
            /\ InOrder(text, 1, toks, 1)
            /\ HiThere(toks) => text = Hi \o <<" ">> \o Word

\* the two tokens of the two speakers were rendered with both markers and
\* cleaned to the two words
C31_Witness ==
    /\ call.at = "cleaned"
    /\ HiThere(LoopTokens(call.final, call.non_final))
    /\ call.returns[1] = Marker(One) \o Hi \o Break \o Marker(Two) \o Word
    /\ call.cleaned = Hi \o <<" ">> \o Word

\* --------------------------------------------------------------------- C32
\* C32: whenever the handle is set, outside the shutdown that has cancelled
\* the receive task and is about to close the connection, a receive loop is
\* running and it reads from the connection of the handle.
C32_HandleHasLoop ==
    websocket # 0 /\ pc # "end_close" => LoopRunning /\ task_sock = websocket

\* --------------------------------------------------------------------- C33
\* the stop signal inp[i] ends an utterance: a start signal was handled
\* before it with no other stop signal in between
EndsUtterance(i) ==
    \E s \in 1..(i - 1) :
        /\ inp[s] = "UserStartedSpeakingFrame"
        /\ \A k \in (s + 1)..(i - 1) : inp[k] # "UserStoppedSpeakingFrame"

\* C33: every TranscriptionFrame pushed downstream belongs to a stop signal
\* that ends an utterance, so that its tokens were received after that
\* utterance's start signal; a stop signal with no start signal since the
\* previous stop, or since the session began, emits no transcript.
C33_TranscriptNeedsStart ==
    \A j \in 1..Len(out) :
        out[j].kind = "TranscriptionFrame" => EndsUtterance(out[j].src)

\* --------------------------------------------------------------------- C34
\* the frames of q that process_frame forwards, without those it adds
Forwarded(q) ==
    SelectSeq(q, LAMBDA f : f.kind \notin {"TranscriptionFrame", "LLMRunFrame"})

\* the number of frames whose handler has come to its end
Handled == IF pc = "idle" THEN Len(inp) ELSE Len(inp) - 1

\* C34: downstream, the forwarded frames are the handled frames, each once
\* and in the order of arrival; a frame whose handler is still running is the
\* only one not forwarded yet; and every TranscriptionFrame or LLMRunFrame
\* belongs to a stop signal and is followed by the next frame of the same
\* stop signal, the last of which is the forwarded stop frame.
C34_ForwardedOnceInOrder ==
    /\ Forwarded(out) = [i \in 1..Handled |-> Fwd(inp[i], i)]
    /\ \A j \in Emissions(out) :
          /\ inp[out[j].src] = "UserStoppedSpeakingFrame"
          /\ j < Len(out) => out[j + 1].src = out[j].src
          /\ j = Len(out) => pc # "idle"

\* a start, a stop with its transcript and run trigger, and an EndFrame were
\* handled
C34_Witness ==
    /\ pc = "idle"
    /\ inp = <<"UserStartedSpeakingFrame", "UserStoppedSpeakingFrame", "EndFrame">>
    /\ Len(out) = Len(inp) + Cardinality(Emissions(out))
    /\ Cardinality(Emissions(out)) = Cardinality({"TranscriptionFrame", "LLMRunFrame"})
    /\ out[Len(out)] = Fwd("EndFrame", Len(inp))

\* --------------------------------------------------------------------- C35
\* this step is GroqLLMService handling an LLMContextFrame that carries
\* messages
ContextStep ==
    /\ llm'.inp = Append(llm.inp, "LLMContextFrame")
    /\ llm'.context # <<>>

\* this step makes a request to the API
Called == Len(llm'.calls) > Len(llm.calls)

\* the user texts that were the last message of a request made for an
\* LLMContextFrame with messages
Asked(calls) ==
    {calls[k].messages[Len(calls[k].messages)].content :
        k \in {j \in DOMAIN calls : calls[j].branch = "context"}}

\* C35: when GroqLLMService handles an LLMContextFrame with messages, it
\* calls the API only if the last message is a user message with content,
\* the hash of its role and content is not among the processed ones, and the
\* context is longer than at the last processed frame or an LLMRunFrame has
\* come since; the request then ends with that message, its text was never
\* the last message of such a request before, and afterwards the hash is
\* among the processed ones, the length is recorded and the LLMRunFrame
\* flag is cleared.
C35_CallOnlyForNewUserMessage ==
    [][ContextStep /\ Called =>
          LET messages == llm'.context
              last == messages[Len(messages)]
              request == llm'.calls[Len(llm'.calls)]
          IN  /\ last.role = User
              /\ last.content # <<>>
              /\ Hash(last.role, last.content) \notin llm._processed_message_hashes
              /\ \/ Len(messages) > llm._last_context_message_count
                 \/ llm._last_llm_run_frame
              /\ Len(llm'.calls) = Len(llm.calls) + 1
              /\ request.messages[Len(request.messages)] = last
              /\ last.content \notin Asked(llm.calls)
              /\ Hash(last.role, last.content) \in llm'._processed_message_hashes
              /\ llm'._last_context_message_count = Len(messages)
              /\ ~llm'._last_llm_run_frame]_vars

\* the text "hi" was processed once, came again as the last message of a
\* longer context after an LLMRunFrame, and no second request was made
C35_Witness ==
    /\ llm.inp = <<"LLMContextFrame", "LLMRunFrame", "LLMContextFrame">>
    /\ llm.context = <<Message(User, Hi), Message(Assistant, Reply), Message(User, Hi)>>
    /\ Len(llm.calls) = Len(<<Hi>>)
    /\ llm._last_llm_run_frame
    /\ llm._last_context_message_count < Len(llm.context)

\* --------------------------------------------------------------------- C36
\* C36: an LLMContextFrame whose messages are more than at the last
\* processed frame and end with a user message with content gets one
\* response: the handler pushes the three frames LLMFullResponseStartFrame,
\* TextFrame and LLMFullResponseEndFrame, once, before it forwards the frame.
C36_EveryUserTurnAnswered ==
    [][/\ ContextStep
       /\ Len(llm'.context) > llm._last_context_message_count
       /\ llm'.context[Len(llm'.context)].role = User
       /\ llm'.context[Len(llm'.context)].content # <<>>
       =>
          \E text \in {Reply, Apology} :
              llm'.out = llm.out \o ResponseFrames(text, Len(llm'.inp))
                                 \o <<Fwd("LLMContextFrame", Len(llm'.inp))>>]_vars

\* --------------------------------------------------------------------- C37
\* this step is CartesiaTTSService handling an LLMFullResponseEndFrame with
\* text in the buffer that is not blank
SpeechStep ==
    /\ tts'.inp = Append(tts.inp, "LLMFullResponseEndFrame")
    /\ strip(tts._text_buffer) # <<>>

\* the frames the step pushes
Pushed == SubSeq(tts'.out, Len(tts.out) + 1, Len(tts'.out))

\* C37: when the speech for the buffered text fails, because there is no
\* connection or because the request raises, the handler pushes a TextFrame
\* with the buffered text.
C37_TextPushedOnFailure ==
    [][SpeechStep /\ tts'.generation \in {"absent", "raised"} =>
          \E j \in DOMAIN Pushed :
              Pushed[j].kind = "TextFrame" /\ Pushed[j].text = tts._text_buffer]_vars

\* --------------------------------------------------------------------- C38
\* C38: a TextFrame is added to the end of the buffer and nothing is
\* pushed for it; an LLMFullResponseEndFrame with text in the buffer that is
\* not blank pushes one TTSStartedFrame, the audio frames, one
\* TTSStoppedFrame and then the frame itself, asks for the speech of the
\* buffer at most once, and leaves the buffer empty; with a blank buffer it
\* only forwards the frame; and no other frame changes the buffer.
C38_SpeakThenClear ==
    [][/\ tts'.inp = Append(tts.inp, "TextFrame") =>
             /\ tts'.out = tts.out
             /\ \E text \in ResponseTexts : tts'._text_buffer = tts._text_buffer \o text
       /\ SpeechStep =>
             LET i == Len(tts'.inp)
                 audio == {j \in DOMAIN Pushed : Pushed[j].kind = "TTSAudioRawFrame"}
             IN  /\ Len(Pushed) >= Len(<<"started", "stopped", "end">>)
                 /\ Pushed[1] = TTSFrame("TTSStartedFrame", i)
                 /\ audio = 2..(Len(Pushed) - 2)
                 /\ Pushed[Len(Pushed) - 1] = TTSFrame("TTSStoppedFrame", i)
                 /\ Pushed[Len(Pushed)] = Fwd("LLMFullResponseEndFrame", i)
                 /\ tts'._text_buffer = <<>>
                 /\ \/ tts'.requests = tts.requests
                    \/ tts'.requests = Append(tts.requests, tts._text_buffer)
       /\ tts'.inp # tts.inp /\ ~SpeechStep
              /\ tts'.inp # Append(tts.inp, "TextFrame") =>
             /\ tts'._text_buffer = tts._text_buffer
             /\ tts'.requests = tts.requests
             /\ Pushed = <<Fwd(tts'.inp[Len(tts'.inp)], Len(tts'.inp))>>]_vars

\* the response "hi" was spoken with two audio frames between the started
\* and the stopped frame, the end frame came after them and the buffer is empty
C38_Witness ==
    /\ tts.inp = <<"StartFrame", "TextFrame", "LLMFullResponseEndFrame">>
    /\ tts.requests = <<Hi>>
    /\ tts._text_buffer = <<>>
    /\ [j \in DOMAIN tts.out |-> tts.out[j].kind] =
           <<"StartFrame", "TTSStartedFrame", "TTSAudioRawFrame",
             "TTSAudioRawFrame", "TTSStoppedFrame", "LLMFullResponseEndFrame">>

\* --------------------------------------------------------------------- C39
\* the rows of the table whose pattern is found in the lower-cased text
Matching(text) ==
    {k \in DOMAIN _responses :
        /\ k # DefaultKey
        /\ re_search(_responses[k].pattern, strip(lower(text)))}

\* the row that answers the text: the first that matches, else the default
Answering(text) ==
    IF Matching(text) = {} THEN DefaultKey
    ELSE CHOOSE k \in Matching(text) : \A j \in Matching(text) : k <= j

\* the index stored for row k, 0 while none is stored
Stored(index, k) == IF k \in DOMAIN index THEN index[k] ELSE 0

\* C39: _get_response answers with a variant of the first pattern in table
\* order that matches the lower-cased input, or of the default list when
\* none matches; every stored rotation index is within the bounds of its
\* variant list; and successive matches of one pattern return its variants
\* in list order, the first again after the last.
C39_RotatingVariants ==
    [][/\ \A k \in DOMAIN responder'._response_index :
             responder'._response_index[k] \in 0..(Len(_responses[k].responses) - 1)
       /\ \A text \in UserSayings :
             responder'.inp = Append(responder.inp, SimpleFrame("TextFrame", text)) =>
                LET k == Answering(text)
                    variants == _responses[k].responses
                    old == Stored(responder._response_index, k)
                    new == Stored(responder'._response_index, k)
                    said == responder'.out[Len(responder'.out) - 1]
                IN  /\ said.kind = "TextFrame"
                    /\ said.text = variants[old + 1]
                    /\ new = IF old + 1 = Len(variants) THEN 0 ELSE old + 1
                    /\ k \in DOMAIN responder'._response_index
                    /\ \A j \in DOMAIN _responses \ {k} :
                          /\ j \in DOMAIN responder'._response_index
                                <=> j \in DOMAIN responder._response_index
                          /\ Stored(responder'._response_index, j)
                                = Stored(responder._response_index, j)]_vars

\* the greeting was matched four times: its three variants were returned in
\* order and then the first again
C39_Witness ==
    /\ Len(responder.inp) = 4
    /\ \A i \in DOMAIN responder.inp : responder.inp[i].text = Greeting
    /\ [i \in 1..4 |-> responder.out[3 * i - 1].text] =
          <<_responses[1].responses[1], _responses[1].responses[2],
            _responses[1].responses[3], _responses[1].responses[1]>>
    /\ responder._response_index[Key(1)] = 1

====
